---------------------------- MODULE Spec2Model ----------------------------
(***************************************************************************)
(* A model of the content-decryption pipeline of Deezer-dl (src/crypto.rs) *)
(* and of the claims its specification makes about it.                     *)
(*                                                                         *)
(* Bytes are the integers 0..255.  A byte buffer (&[u8], Vec<u8>) and a    *)
(* string (&str, String: its UTF-8 bytes) are sequences of bytes.  Rust    *)
(* indexes from 0, TLA+ sequences from 1: byte i of the code is element    *)
(* i + 1 of the sequence.                                                  *)
(*                                                                         *)
(* The primitives of the external crates (blowfish, aes, md5) are not code *)
(* of the repository.  They are modelled by what the code relies on: the   *)
(* block ciphers are keyed permutations of 8-byte / 16-byte blocks, the    *)
(* digest maps any byte string to 16 bytes.  The modes, loops, paddings,   *)
(* encodings and concatenations the repository writes around them are      *)
(* modelled as written.                                                    *)
(***************************************************************************)
EXTENDS Integers, Sequences, FiniteSets, TLC

VARIABLES
    pc,            \* decrypt_stream: "idle", "loop" (inside the while), "done",
                   \* "panicked"
    encrypted,     \* decrypt_stream: the argument `encrypted`
    blowfish_key,  \* decrypt_stream: the argument `blowfish_key`
    output,        \* decrypt_stream: the local `output`
    offset,        \* decrypt_stream: the local `offset`
    plain,         \* ghost: the plaintext the input was encrypted from, <<-1>> when
                   \* the input is an arbitrary buffer
    kpc,           \* generate_blowfish_key: "idle", "done", "panicked"
    track_id,      \* generate_blowfish_key: the argument `track_id`
    id_md5,        \* generate_blowfish_key: the local `id_md5`
    bf_key,        \* generate_blowfish_key: the local `bf_key`, returned
    upc,           \* generate_crypted_stream_url: "idle", "done", "panicked"
    url_args,      \* its arguments [sng_id, md5, media_version, format]
    url_locals,    \* generate_stream_path's locals [url_part_raw, md5val, step2, pad_len]
    url,           \* the String returned
    upc2,          \* a second call of generate_crypted_stream_url: "idle", "done", ...
    url_args2,     \* its arguments
    url2,          \* the String it returned
    gpc,           \* get_download_url: "idle", "token" (line 36), "fallback" (the
                   \* while of line 41), "legacy" (line 51), "sized" (the while of
                   \* line 61), "ok", "err", "panicked"
    g_track,       \* get_download_url: the argument `track`
    g_current_format, \* the argument `format`, bound to `current_format`
    g_fallback,    \* the local `fallback`: Option<TrackFormat>
    g_try_format,  \* the local `try_format`: Option<TrackFormat>
    g_return,      \* the tuple returned: [url, format, is_crypted]
    g_calls,       \* ghost: the calls of api.get_track_url made, [format, outcome]
    g_via,         \* ghost: the return taken, "token", "sized" or "last"
    cpc,           \* decrypt_chunk: "idle", "done", "panicked"
    c_chunk,       \* decrypt_chunk: the argument `chunk`
    c_key,         \* decrypt_chunk: the argument `blowfish_key`
    c_buf,         \* decrypt_chunk: the local `buf`, returned
    tpc,           \* download_track: "idle", "url" (line 92), "dir" (97), "exists"
                   \* (103), "send" (111-124), "stream" (the while of line 145),
                   \* "empty" (157), "key" (162-163), "decrypt" (164), "decrypting",
                   \* "strip" (170), "write" (182), "done", "err", "panicked"
    t_track,       \* download_track: the argument `track`
    t_format,      \* download_track: the argument `format`
    t_url,         \* download_track: the locals (url, actual_format, is_crypted)
    t_data,        \* download_track: the local `data`
    t_final_data,  \* download_track: the local `final_data`
    t_output_data, \* download_track: the local `output_data`
    t_file,        \* the file at `filepath` as this call wrote it: None, or Some(bytes)
    t_received,    \* ghost: the chunks the stream has given, in order
    t_failed,      \* ghost: the statement that made download_track return an error
    t_effects,     \* ghost: what the call has done to the world, in order: "exists"
                   \* (it found a file at filepath), "request" (it sent the GET of
                   \* the track), "create" (it called File::create on filepath)
    th_pc,         \* concurrent invocations: where each thread is in its function
    th_call,       \* ghost: the call each thread made, [op, args]
    th_args,       \* the argument buffers of each thread's call
    th_locals,     \* the frames: the locals of the function each thread runs
    th_result,     \* the value each thread's call returned
    th_owner,      \* ghost: the thread that wrote each frame last (0: nobody)
    th_mixed,      \* ghost: the thread took a step while another call was under way
    api_token,     \* DeezerApi: the field `api_token`: Option<String>
    current_user,  \* DeezerApi: the field `current_user`: Option<CurrentUser>
    apc,           \* the call of DeezerApi under way: "idle", gw_call: "gw_token"
                   \* (lines 164-177), "gw_send" (179-196), "gw_check" (199-210);
                   \* login_via_arl: "login_get" (40-46), "login_data" (49),
                   \* "login_check" (51-112); get_track_url: "url_user" (440-441),
                   \* "url_send" (443-478); "ok", "err" when it has returned
    a_call,        \* the function called: "gw_call", "login_via_arl", "get_track_url"
    a_method,      \* gw_call: the argument `method`
    a_retried,     \* gw_call: the local `retried`
    a_body,        \* the response body parsed last: [error, user_id, check_form]
    a_result,      \* the value returned: Ok(..) as Some(..), or the error
    a_log,         \* ghost: the requests this call has sent, in order: "method" (the
                   \* request of gw_call's own method), "refresh" (a run of
                   \* refresh_token), "media", "cookie", "user_data"
    a_logged_in,   \* ghost: some call of login_via_arl has returned Ok(true)
    lpc,           \* download_playlist: "idle", "info" (197), "tracks" (206), "loop"
                   \* (214), "track" (inside download_track, 218), "done", "err"
    l_tracks,      \* download_playlist: the local `tracks`
    l_i,           \* download_playlist: the index i of the for loop
    l_downloaded,  \* download_playlist: the local `downloaded`
    l_failed,      \* download_playlist: the local `failed`
    l_attempts     \* ghost: the tracks download_track was called with, in order

streamVars == <<pc, encrypted, blowfish_key, output, offset, plain>>
keyVars == <<kpc, track_id, id_md5, bf_key>>
urlVars == <<upc, url_args, url_locals, url>>
url2Vars == <<upc2, url_args2, url2>>
getVars ==
    <<gpc, g_track, g_current_format, g_fallback, g_try_format, g_return, g_calls, g_via>>
chunkVars == <<cpc, c_chunk, c_key, c_buf>>
trackVars ==
    <<tpc, t_track, t_format, t_url, t_data, t_final_data, t_output_data, t_file,
      t_received, t_failed, t_effects>>
concVars == <<th_pc, th_call, th_args, th_locals, th_result, th_owner, th_mixed>>
apiVars ==
    <<api_token, current_user, apc, a_call, a_method, a_retried, a_body, a_result,
      a_log, a_logged_in>>
listVars == <<lpc, l_tracks, l_i, l_downloaded, l_failed, l_attempts>>
vars ==
    <<streamVars, keyVars, urlVars, url2Vars, getVars, chunkVars, trackVars, concVars,
      apiVars, listVars>>

(***************************************************************************)
(* Bounds of the model.                                                    *)
(***************************************************************************)
\* the input buffers hold up to MaxSuperChunks whole super-chunks plus a tail
MaxSuperChunks == 2
\* the input buffers are filled from the byte patterns 0..MaxSeed
MaxSeed == 1
\* the keys are the key patterns 0..MaxKey
MaxKey == 1
\* the track identifiers of generate_blowfish_key have up to MaxTrackIdLen digits
MaxTrackIdLen == 2
\* the origin checksums have up to MaxChecksumChars characters
MaxChecksumChars == 2
\* the regions decrypt_chunk is called with directly have up to MaxRegionLen bytes
MaxRegionLen == 17
\* the download stream of download_track gives up to MaxStreamChunks chunks
MaxStreamChunks == 2
\* the playlists hold up to MaxPlaylistLen tracks
MaxPlaylistLen == 2

(***************************************************************************)
(* Bytes.                                                                  *)
(***************************************************************************)
\* the exclusive or of two 4-bit values: XorNibble[a + 1][b + 1] = a ^ b
XorNibble ==
    <<
       <<0, 1, 2, 3, 4, 5, 6, 7, 8, 9, 10, 11, 12, 13, 14, 15>>,
       <<1, 0, 3, 2, 5, 4, 7, 6, 9, 8, 11, 10, 13, 12, 15, 14>>,
       <<2, 3, 0, 1, 6, 7, 4, 5, 10, 11, 8, 9, 14, 15, 12, 13>>,
       <<3, 2, 1, 0, 7, 6, 5, 4, 11, 10, 9, 8, 15, 14, 13, 12>>,
       <<4, 5, 6, 7, 0, 1, 2, 3, 12, 13, 14, 15, 8, 9, 10, 11>>,
       <<5, 4, 7, 6, 1, 0, 3, 2, 13, 12, 15, 14, 9, 8, 11, 10>>,
       <<6, 7, 4, 5, 2, 3, 0, 1, 14, 15, 12, 13, 10, 11, 8, 9>>,
       <<7, 6, 5, 4, 3, 2, 1, 0, 15, 14, 13, 12, 11, 10, 9, 8>>,
       <<8, 9, 10, 11, 12, 13, 14, 15, 0, 1, 2, 3, 4, 5, 6, 7>>,
       <<9, 8, 11, 10, 13, 12, 15, 14, 1, 0, 3, 2, 5, 4, 7, 6>>,
       <<10, 11, 8, 9, 14, 15, 12, 13, 2, 3, 0, 1, 6, 7, 4, 5>>,
       <<11, 10, 9, 8, 15, 14, 13, 12, 3, 2, 1, 0, 7, 6, 5, 4>>,
       <<12, 13, 14, 15, 8, 9, 10, 11, 4, 5, 6, 7, 0, 1, 2, 3>>,
       <<13, 12, 15, 14, 9, 8, 11, 10, 5, 4, 7, 6, 1, 0, 3, 2>>,
       <<14, 15, 12, 13, 10, 11, 8, 9, 6, 7, 4, 5, 2, 3, 0, 1>>,
       <<15, 14, 13, 12, 11, 10, 9, 8, 7, 6, 5, 4, 3, 2, 1, 0>>
    >>

\* u8 ^ u8, nibble by nibble
XorByte(a, b) ==
    16 * XorNibble[(a \div 16) + 1][(b \div 16) + 1]
       + XorNibble[(a % 16) + 1][(b % 16) + 1]

\* the same for all pairs of bytes, computed once: XorTable[a + 1][b + 1] = a ^ b
XorTable ==
    [a \in 1..256 |-> [b \in 1..256 |-> XorByte(a - 1, b - 1)] \o <<>>] \o <<>>

\* u8 ^ u8
Xor(a, b) == XorTable[a + 1][b + 1]

(***************************************************************************)
(* The Blowfish block cipher (crate blowfish), as a keyed permutation of   *)
(* 8-byte blocks.  Like Blowfish's key schedule, the subkeys cycle through *)
(* the key bytes, so a key of any accepted length (4..56 bytes) works.     *)
(***************************************************************************)
BlowfishBlock == 8

BlowfishSubKey(key, i) ==
    (key[((i - 1) % Len(key)) + 1] + 3 * key[((i + 7) % Len(key)) + 1]) % 256

\* the inverse of BlowfishDecryptBlock: what the service applies
BlowfishEncryptBlock(key, p) ==
    [i \in 1..BlowfishBlock |->
        (5 * p[(i % BlowfishBlock) + 1] + BlowfishSubKey(key, i)) % 256]

\* D_key: decrypts one 8-byte block (205 * 5 = 1 mod 256)
BlowfishDecryptBlock(key, c) ==
    [j \in 1..BlowfishBlock |->
        LET i == ((j + 6) % BlowfishBlock) + 1
        IN  (205 * (c[i] + 256 - BlowfishSubKey(key, i))) % 256]

(***************************************************************************)
(* cbc::Decryptor<Blowfish>::decrypt_blocks_mut (crate cbc), standard      *)
(* chained-block decryption of the first block_count blocks of buf: block  *)
(* j becomes D_key(block j) XOR the ciphertext of block j - 1, block 0     *)
(* D_key(block 0) XOR iv.  Bytes after the last whole block are not part   *)
(* of `blocks` and stay as they are.                                       *)
(***************************************************************************)
CbcDecryptBlocks(buf, key, iv, block_count) ==
    [i \in 1..Len(buf) |->
        IF i > BlowfishBlock * block_count
        THEN buf[i]
        ELSE LET j    == (i - 1) \div BlowfishBlock
                 b    == ((i - 1) % BlowfishBlock) + 1
                 ct   == [n \in 1..BlowfishBlock |-> buf[BlowfishBlock * j + n]]
                 prev == IF j = 0 THEN iv[b] ELSE buf[BlowfishBlock * (j - 1) + b]
             IN  Xor(BlowfishDecryptBlock(key, ct)[b], prev)]

\* what a panic leaves in place of a value
Panicked == <<-1>>

(***************************************************************************)
(* decrypt_chunk (crypto.rs:44-61).                                        *)
(***************************************************************************)
\* let iv: [u8; 8] = [0, 1, 2, 3, 4, 5, 6, 7];
ChunkIv == <<0, 1, 2, 3, 4, 5, 6, 7>>

\* faulty variant: the decryptor starts from an all-zero IV
DecryptChunkIvZero(chunk, key) ==
    CbcDecryptBlocks(chunk, key, <<0, 0, 0, 0, 0, 0, 0, 0>>,
                     Len(chunk) \div BlowfishBlock)

\* BlowfishCbcDec::new_from_slices(blowfish_key, &iv) is Ok for a key of 4 to 56
\* bytes (the key sizes of the crate blowfish) and an IV of one block
KeyIvOk(key, iv) == 4 <= Len(key) /\ Len(key) <= 56 /\ Len(iv) = BlowfishBlock

\* buf = chunk.to_vec(); block_count = buf.len() / 8; the decryptor starts from
\* ChunkIv at every call; .expect(..) panics when new_from_slices is not Ok
DecryptChunk(chunk, key) ==
    IF KeyIvOk(key, ChunkIv)
    THEN CbcDecryptBlocks(chunk, key, ChunkIv, Len(chunk) \div BlowfishBlock) \o <<>>
    ELSE Panicked

(***************************************************************************)
(* decrypt_stream (crypto.rs:84-106).                                      *)
(***************************************************************************)
\* the 2048 of `chunk.len() >= 2048` and `&chunk[..2048]`
DecryptSize == 2048
\* faulty variant: super-chunks of two 2048-byte parts
ChunkSizeTwo == 2048 * 2

\* let chunk_size = 2048 * 3;
ChunkSize == 2048 * 3

Min(a, b) == IF a < b THEN a ELSE b

\* remaining.min(chunk_size) and the slice &encrypted[offset..offset + current_chunk_size]
CurrentChunkSize(enc, off) == Min(Len(enc) - off, ChunkSize)
CurrentChunk(enc, off) == SubSeq(enc, off + 1, off + CurrentChunkSize(enc, off))

\* faulty variant: the tail of the super-chunk is not copied to the output
LoopBodyDropTail(enc, key, off, out) ==
    LET chunk == CurrentChunk(enc, off)
    IN  [output |->
            IF Len(chunk) >= DecryptSize
            THEN out \o DecryptChunk(SubSeq(chunk, 1, DecryptSize), key)
            ELSE out \o chunk,
         offset |-> off + CurrentChunkSize(enc, off),
         panicked |-> FALSE]

\* faulty variant: the whole super-chunk is handed to decrypt_chunk
LoopBodyDecryptWhole(enc, key, off, out) ==
    LET chunk == CurrentChunk(enc, off)
    IN  [output |->
            IF Len(chunk) >= DecryptSize
            THEN out \o DecryptChunk(chunk, key)
            ELSE out \o chunk,
         offset |-> off + CurrentChunkSize(enc, off),
         panicked |-> FALSE]

\* faulty variant: no test of the super-chunk's length, a short one is decrypted too
LoopBodyNoLengthTest(enc, key, off, out) ==
    LET chunk == CurrentChunk(enc, off)
    IN  [output |->
            out \o DecryptChunk(SubSeq(chunk, 1, Min(Len(chunk), DecryptSize)), key)
                \o SubSeq(chunk, DecryptSize + 1, Len(chunk)),
         offset |-> off + CurrentChunkSize(enc, off),
         panicked |-> FALSE]

\* faulty variant: one decryptor for the whole stream, whose chaining register goes on
\* from the last block decrypted in the super-chunk before
LoopBodyCarryIv(enc, key, off, out) ==
    LET chunk == CurrentChunk(enc, off)
        iv    == IF off = 0
                 THEN ChunkIv
                 ELSE SubSeq(enc, off - ChunkSize + DecryptSize - BlowfishBlock + 1,
                             off - ChunkSize + DecryptSize)
    IN  [output |->
            IF Len(chunk) >= DecryptSize
            THEN out \o CbcDecryptBlocks(SubSeq(chunk, 1, DecryptSize), key, iv,
                                         DecryptSize \div BlowfishBlock)
                     \o SubSeq(chunk, DecryptSize + 1, Len(chunk))
            ELSE out \o chunk,
         offset |-> off + CurrentChunkSize(enc, off),
         panicked |-> FALSE]

\* one iteration of the while loop: the new values of output and offset, or the
\* panic of decrypt_chunk
LoopBody(enc, key, off, out) ==
    LET current_chunk_size == CurrentChunkSize(enc, off)
        chunk == CurrentChunk(enc, off)
        decrypted == DecryptChunk(SubSeq(chunk, 1, DecryptSize), key)
    IN  IF Len(chunk) >= DecryptSize /\ decrypted = Panicked
        THEN [output |-> out, offset |-> off, panicked |-> TRUE]
        ELSE [output |->
                 IF Len(chunk) >= DecryptSize
                 THEN out \o decrypted \o SubSeq(chunk, DecryptSize + 1, Len(chunk))
                 ELSE out \o chunk,
              offset |-> off + current_chunk_size,
              panicked |-> FALSE]

RECURSIVE DecryptStreamFrom(_, _, _, _)
\* the whole loop, from a given offset and output, to the value returned
DecryptStreamFrom(enc, key, off, out) ==
    IF off < Len(enc)
    THEN LET s == LoopBody(enc, key, off, out)
         IN  IF s.panicked
             THEN Panicked
             ELSE DecryptStreamFrom(enc, key, s.offset, s.output)
    ELSE out

\* decrypt_stream(encrypted, blowfish_key) as a function of its arguments
DecryptStream(enc, key) == DecryptStreamFrom(enc, key, 0, <<>>)

(***************************************************************************)
(* The inputs the model draws.                                             *)
(***************************************************************************)
\* byte i (from 0) of the pattern `seed`: an even pattern repeats with every
\* super-chunk, an odd one does not
PatternByte(seed, i) ==
    LET x == IF seed % 2 = 0 THEN i % (3 * 2048) ELSE i
        m == seed + 1
    IN  (m * x + 3 * m * (x \div 256) + 7 * m * (x \div 4096)) % 256

\* (concatenated with <<>>: evaluated once, to a tuple)
Buffer(seed, len) == [i \in 1..len |-> PatternByte(seed, i - 1)] \o <<>>

\* the lengths around every boundary of the algorithm
BufferLengths ==
    {n * (3 * 2048) + r : n \in 0..MaxSuperChunks, r \in {0, 1, 2047, 2048, 2049}}

\* 16-byte keys
KeyPattern(k) == [i \in 1..16 |-> (k * 17 + 41 + i * (2 * k + 3)) % 256] \o <<>>

(***************************************************************************)
(* The service's encryption, the oracle of the round trip: chained-block   *)
(* encryption, IV ChunkIv, of the first 2048 bytes of every super-chunk of *)
(* at least 2048 bytes, the rest in the clear.                             *)
(***************************************************************************)
\* the blocks are encrypted one after the other, each XORed with the ciphertext of
\* the block before it, in runs of 16 blocks that keep the recursion shallow
RECURSIVE CbcEncryptRun(_, _, _, _, _, _, _)
\* appends to acc the ciphertext of blocks j .. last - 1 of the region of p at base
CbcEncryptRun(p, key, base, prev, j, last, acc) ==
    IF j = last
    THEN acc
    ELSE LET x  == [i \in 1..BlowfishBlock |->
                       Xor(p[base + BlowfishBlock * j + i], prev[i])]
             ct == BlowfishEncryptBlock(key, x)
             c  == <<ct[1], ct[2], ct[3], ct[4], ct[5], ct[6], ct[7], ct[8]>>
             a  == acc \o c
         IN  IF Len(a) > 0
             THEN CbcEncryptRun(p, key, base, c, j + 1, last, a)
             ELSE <<>>

RECURSIVE CbcEncryptRuns(_, _, _, _, _, _)
\* the ciphertext of the first block_count blocks of the region of p at base
CbcEncryptRuns(p, key, base, prev, j, block_count) ==
    IF j = block_count
    THEN <<>>
    ELSE LET last == Min(j + 16, block_count)
             a    == CbcEncryptRun(p, key, base, prev, j, last, <<>>)
             c    == SubSeq(a, Len(a) - BlowfishBlock + 1, Len(a))
         IN  IF Len(c) > 0
             THEN a \o CbcEncryptRuns(p, key, base, c, last, block_count)
             ELSE <<>>

RECURSIVE EncryptLikeServiceFrom(_, _, _)
EncryptLikeServiceFrom(p, key, off) ==
    IF off < Len(p)
    THEN LET n    == Min(Len(p) - off, 6144)
             here == IF n >= 2048
                     THEN CbcEncryptRuns(p, key, off, <<0, 1, 2, 3, 4, 5, 6, 7>>, 0, 256)
                              \o SubSeq(p, off + 2048 + 1, off + n)
                     ELSE SubSeq(p, off + 1, off + n)
         IN  IF Len(here) > 0
             THEN here \o EncryptLikeServiceFrom(p, key, off + n)
             ELSE <<>>
    ELSE <<>>

EncryptLikeService(p, key) == EncryptLikeServiceFrom(p, key, 0)

\* the ghost value of `plain` for an input that is not the encryption of a plaintext
NoPlain == <<-1>>

(***************************************************************************)
(* The MD5 digest (crate md5), as a function from byte strings to 16       *)
(* bytes: eight 16-bit words absorb the bytes one by one, then the length, *)
(* and are stirred once more each; the digest is their bytes.              *)
(***************************************************************************)
Md5Start == <<26437, 9012, 51913, 1837, 44321, 602, 30977, 58213>>

Md5Round(st, b) ==
    <<st[2], st[3], st[4], st[5], st[6], st[7], st[8],
      (31 * st[1] + 7 * st[2] + st[5] + b + 1) % 65536>>

RECURSIVE Md5Absorb(_, _, _)
Md5Absorb(data, i, st) ==
    IF i > Len(data)
    THEN st
    ELSE LET s == Md5Round(st, data[i])
         IN  IF s[1] >= 0 THEN Md5Absorb(data, i + 1, s) ELSE s

RECURSIVE Md5Stir(_, _)
Md5Stir(st, n) ==
    IF n = 0
    THEN st
    ELSE LET s == Md5Round(st, n)
         IN  IF s[1] >= 0 THEN Md5Stir(s, n - 1) ELSE s

\* hasher.update(data); hasher.finalize(): 16 bytes
Md5Digest(data) ==
    LET st == Md5Stir(Md5Round(Md5Absorb(data, 1, Md5Start), Len(data) % 256), 8)
    IN  [i \in 1..16 |->
            IF i % 2 = 1 THEN st[(i + 1) \div 2] % 256 ELSE st[i \div 2] \div 256] \o <<>>

(***************************************************************************)
(* hex::encode: two lowercase hexadecimal digits for each byte, the high   *)
(* nibble first.                                                           *)
(***************************************************************************)
\* the ASCII code of the hexadecimal digit of n: '0'..'9' are 48..57, 'a'..'f' 97..102
HexDigit(n) == IF n < 10 THEN 48 + n ELSE 87 + n

HexEncode(bytes) ==
    [i \in 1..(2 * Len(bytes)) |->
        IF i % 2 = 1
        THEN HexDigit(bytes[(i + 1) \div 2] \div 16)
        ELSE HexDigit(bytes[i \div 2] % 16)] \o <<>>

\* md5_hex (crypto.rs:10-14)
Md5Hex(data) == HexEncode(Md5Digest(data))

(***************************************************************************)
(* The AES-128 block cipher (crate aes), as a keyed permutation of 16-byte *)
(* blocks.                                                                 *)
(***************************************************************************)
AesBlock == 16

AesEncryptBlock(key, p) ==
    [i \in 1..AesBlock |-> (7 * p[((i + 2) % AesBlock) + 1] + key[i] + i) % 256]

(***************************************************************************)
(* aes_ecb_encrypt (crypto.rs:17-28): every chunk of data.chunks(16) is    *)
(* copied into a 16-byte block (clone_from_slice panics on a chunk of      *)
(* another length, which only the last chunk can have, and key.into() on a *)
(* key that is not 16 bytes), encrypted, and appended; the result is       *)
(* hex-encoded.                                                            *)
(***************************************************************************)
AesEcbEncrypt(key, data) ==
    IF Len(key) # AesBlock \/ Len(data) % AesBlock # 0
    THEN Panicked
    ELSE HexEncode(
            [i \in 1..Len(data) |->
                LET at == AesBlock * ((i - 1) \div AesBlock)
                IN  AesEncryptBlock(key, [n \in 1..AesBlock |-> data[at + n]])
                        [((i - 1) % AesBlock) + 1]] \o <<>>)

(***************************************************************************)
(* generate_blowfish_key (crypto.rs:31-41).                                *)
(***************************************************************************)
\* const SECRET: &[u8] = b"g4el58wc0zvf9na1";
Secret == <<103, 52, 101, 108, 53, 56, 119, 99, 48, 122, 118, 102, 57, 110, 97, 49>>

\* faulty variant: the secret is left out of the exclusive or
GenerateBlowfishKeyNoSecret(id) ==
    LET id_md5_bytes == Md5Hex(id)
    IN  [id_md5 |-> id_md5_bytes,
         bf_key |-> [i \in 1..16 |-> Xor(id_md5_bytes[i], id_md5_bytes[i + 16])] \o <<>>]

\* the locals id_md5 and bf_key at the return; indexing id_md5_bytes beyond its
\* length panics
GenerateBlowfishKey(id) ==
    LET id_md5_bytes == Md5Hex(id)
    IN  [id_md5 |-> id_md5_bytes,
         bf_key |->
            IF Len(id_md5_bytes) < 32
            THEN Panicked
            ELSE [i \in 1..16 |->
                    Xor(Xor(id_md5_bytes[i], id_md5_bytes[i + 16]), Secret[i])] \o <<>>]

(***************************************************************************)
(* generate_stream_path (crypto.rs:64-74).                                 *)
(***************************************************************************)
\* '\u{00a4}' in UTF-8
Sep == <<194, 164>>

RECURSIVE Decimal(_)
\* `{}` of a u32: its decimal digits
Decimal(n) == IF n < 10 THEN <<48 + n>> ELSE Decimal(n \div 10) \o <<48 + (n % 10)>>

\* faulty variant: the media version is left out
UrlPartRawNoVersion(sng_id, md5, media_version, format) ==
    md5 \o Sep \o Decimal(format) \o Sep \o sng_id \o Sep

\* faulty variant: the track id before the format code
UrlPartRawIdFirst(sng_id, md5, media_version, format) ==
    md5 \o Sep \o sng_id \o Sep \o Decimal(format) \o Sep \o media_version

\* format!("{}\u{00a4}{}\u{00a4}{}\u{00a4}{}", md5, format, sng_id, media_version)
UrlPartRaw(sng_id, md5, media_version, format) ==
    md5 \o Sep \o Decimal(format) \o Sep \o sng_id \o Sep \o media_version

\* format!("{}\u{00a4}{}\u{00a4}", md5val, url_part_raw)
Step2(md5val, url_part_raw) == md5val \o Sep \o url_part_raw \o Sep

\* let pad_len = 16 - (step2.len() % 16);
PadLen(step2) == 16 - (Len(step2) % 16)

\* ".".repeat(n)
Dots(n) == [i \in 1..n |-> 46]

\* faulty variant: the dots are appended whatever pad_len is
PaddedAlways(step2) == step2 \o Dots(PadLen(step2))

\* if pad_len < 16 { step2.push_str(&".".repeat(pad_len)); }
Padded(step2) ==
    IF PadLen(step2) < 16 THEN step2 \o Dots(PadLen(step2)) ELSE step2

\* b"jo6aey6haid2Teih"
AesKey == <<106, 111, 54, 97, 101, 121, 54, 104, 97, 105, 100, 50, 84, 101, 105, 104>>

\* the locals and the String returned
GenerateStreamPath(sng_id, md5, media_version, format) ==
    LET url_part_raw == UrlPartRaw(sng_id, md5, media_version, format)
        md5val       == Md5Hex(url_part_raw)
        step2        == Step2(md5val, url_part_raw)
    IN  [url_part_raw |-> url_part_raw,
         md5val       |-> md5val,
         pad_len      |-> PadLen(step2),
         step2        |-> Padded(step2),
         result       |-> AesEcbEncrypt(AesKey, Padded(step2))]

(***************************************************************************)
(* generate_crypted_stream_url (crypto.rs:77-81).                          *)
(***************************************************************************)
\* the UTF-8 length of the character that starts with the byte `lead`
Utf8Len(lead) ==
    IF lead < 128 THEN 1 ELSE IF lead < 224 THEN 2 ELSE IF lead < 240 THEN 3 ELSE 4

\* md5.chars().next().unwrap_or('0'), as the String holds it
FirstChar(md5) == IF md5 = <<>> THEN <<48>> ELSE SubSeq(md5, 1, Utf8Len(md5[1]))

\* "https://e-cdns-proxy-"
UrlHead == <<104, 116, 116, 112, 115, 58, 47, 47, 101, 45, 99, 100, 110, 115, 45, 112, 114, 111, 120, 121, 45>>
\* ".dzcdn.net/mobile/1/"
UrlHost == <<46, 100, 122, 99, 100, 110, 46, 110, 101, 116, 47, 109, 111, 98, 105, 108, 101, 47, 49, 47>>

GenerateCryptedStreamUrl(sng_id, md5, media_version, format) ==
    LET url_part == GenerateStreamPath(sng_id, md5, media_version, format).result
    IN  IF url_part = Panicked
        THEN Panicked
        ELSE UrlHead \o FirstChar(md5) \o UrlHost \o url_part

(***************************************************************************)
(* The inputs of the key derivation and of the URL synthesis.              *)
(***************************************************************************)
\* the strings of up to n characters, each character one of chars
RECURSIVE Strings(_, _)
Strings(chars, n) ==
    IF n = 0
    THEN {<<>>}
    ELSE LET shorter == Strings(chars, n - 1)
         IN  shorter \cup {s \o c : s \in shorter, c \in chars}

\* track identifiers: decimal digits
KeyTrackIds == Strings({<<48 + d>> : d \in 0..9}, MaxTrackIdLen)

\* origin checksums: the empty one, short ones (over 'a' and U+00A4) and one of
\* 32 hexadecimal digits
RefChecksum == 
    <<97, 98, 99, 49, 50, 51, 48, 49, 50, 51, 52, 53, 54, 55, 56, 57,
     97, 98, 99, 100, 101, 102, 48, 49, 50, 51, 52, 53, 54, 55, 56, 57>>
Checksums == Strings({<<97>>, Sep}, MaxChecksumChars) \cup {RefChecksum}

\* "1", "7", "17", "3135556"
UrlTrackIds == {<<49>>, <<55>>, <<49, 55>>, <<51, 49, 51, 53, 53, 53, 54>>}

\* "", "1", "."
MediaVersions == {<<>>, <<49>>, <<46>>}

\* the codes of TrackFormat (models.rs:253-259) and a code of two digits
FormatCodes == {1, 3, 9, 10}

UrlArgs ==
    [sng_id : UrlTrackIds, md5 : Checksums, media_version : MediaVersions,
     format : FormatCodes]

\* the argument tuples that differ from a in at most one argument
OneChanged(a) ==
    {b \in UrlArgs :
        Cardinality({f \in {"sng_id", "md5", "media_version", "format"} : a[f] # b[f]}) <= 1}

NoArgs == [sng_id |-> <<>>, md5 |-> <<>>, media_version |-> <<>>, format |-> 0]
NoLocals == [url_part_raw |-> <<>>, md5val |-> <<>>, pad_len |-> 0, step2 |-> <<>>]

(***************************************************************************)
(* Option<T>: None is the empty sequence, Some(x) the sequence of x alone. *)
(***************************************************************************)
None == <<>>
Some(x) == <<x>>

(***************************************************************************)
(* TrackFormat (models.rs:245-283).                                        *)
(***************************************************************************)
TrackFormats == {"Flac", "Mp3_320", "Mp3_128"}

\* TrackFormat::code
Code(format) ==
    CASE format = "Flac" -> 9
      [] format = "Mp3_320" -> 3
      [] format = "Mp3_128" -> 1

\* TrackFormat::api_name
ApiName(format) ==
    CASE format = "Flac" -> "FLAC"
      [] format = "Mp3_320" -> "MP3_320"
      [] format = "Mp3_128" -> "MP3_128"

\* TrackFormat::extension
Extension(format) ==
    CASE format = "Flac" -> ".flac"
      [] format \in {"Mp3_320", "Mp3_128"} -> ".mp3"

\* faulty variant: the lowest format falls back to the highest
FallbackCyclic(format) ==
    CASE format = "Flac" -> Some("Mp3_320")
      [] format = "Mp3_320" -> Some("Mp3_128")
      [] format = "Mp3_128" -> Some("Flac")

\* TrackFormat::fallback
Fallback(format) ==
    CASE format = "Flac" -> Some("Mp3_320")
      [] format = "Mp3_320" -> Some("Mp3_128")
      [] format = "Mp3_128" -> None

(***************************************************************************)
(* GwTrack (models.rs:113-161), the fields and accessors the download      *)
(* uses.  sng_id, sng_title and art_name are byte strings, track_token and *)
(* md5_origin an Option of a byte string, filesize the parsed sizes of the *)
(* three formats.                                                          *)
(***************************************************************************)
\* GwTrack::md5: self.md5_origin.clone().unwrap_or_default()
Md5Of(track) == IF track.md5_origin = None THEN <<>> ELSE track.md5_origin[1]

\* GwTrack::media_ver: the version, "1" when there is none
MediaVer(track) == IF track.media_version = None THEN <<49>> ELSE track.media_version[1]

\* GwTrack::id_str
IdStr(track) == track.sng_id

\* GwTrack::filesize_for_format
FilesizeForFormat(track, format) == track.filesize[format]

NoTrack ==
    [sng_id |-> <<>>, sng_title |-> <<>>, track_token |-> None, md5_origin |-> None,
     media_version |-> None, filesize |-> [f \in TrackFormats |-> 0]]

(***************************************************************************)
(* get_download_url (download.rs:25-73).                                   *)
(***************************************************************************)
\* what api.get_track_url(token, api_name).await comes back with: an error,
\* Ok(None) or Ok(Some(url))
TrackUrlOutcomes == {"Err", "OkNone", "OkSome"}

\* the URL the media API gives for a format: "m9", "m3", "m1"
MediaUrl(format) == <<109, 48 + Code(format)>>

NoReturn == [url |-> <<>>, format |-> "", is_crypted |-> FALSE]

\* faulty variant: a URL of the media API is taken to serve clear bytes
TokenReturnClear(u, format) == [url |-> u, format |-> format, is_crypted |-> FALSE]

\* return Ok((url, current_format, true)); return Ok((url, fb, true));
TokenReturn(u, format) == [url |-> u, format |-> format, is_crypted |-> TRUE]

\* return Ok((url, fmt, true)); and is_crypted = true; Ok((url, current_format, is_crypted))
LegacyReturn(u, format) == [url |-> u, format |-> format, is_crypted |-> TRUE]

\* if let Some(token) = &track.track_token { if !token.is_empty() {
HasToken(track) == track.track_token # None /\ track.track_token[1] # <<>>

\* crypto::generate_crypted_stream_url(&sng_id, &md5, &media_version, fmt.code())
LegacyUrl(track, format) ==
    GenerateCryptedStreamUrl(IdStr(track), Md5Of(track), MediaVer(track), Code(format))

(***************************************************************************)
(* download_track (download.rs:76-187): its pure parts.                    *)
(***************************************************************************)
\* char::is_whitespace, for the characters of one byte
IsWhitespace(b) == b \in {9, 10, 11, 12, 13, 32}

\* '/' | '\\' | ':' | '*' | '?' | '"' | '<' | '>' | '|' => '_', _ => c
SanitizeChar(b) == IF b \in {47, 92, 58, 42, 63, 34, 60, 62, 124} THEN 95 ELSE b

\* str::trim: without the whitespace at both ends
Trim(str) ==
    LET kept == {i \in 1..Len(str) : ~IsWhitespace(str[i])}
    IN  IF kept = {}
        THEN <<>>
        ELSE SubSeq(str, CHOOSE i \in kept : \A j \in kept : i <= j,
                         CHOOSE i \in kept : \A j \in kept : j <= i)

\* sanitize_filename (download.rs:13-22)
SanitizeFilename(name) == Trim([i \in 1..Len(name) |-> SanitizeChar(name[i])])

\* GwTrack::title
Title(track) == track.sng_title

\* if sng_id == "0" || title.is_empty() { bail!("Invalid track data"); }
InvalidTrackData(track) ==
    IdStr(track) = <<48>> \/ SanitizeFilename(Title(track)) = <<>>

\* b"ftyp"
Ftyp == <<102, 116, 121, 112>>

\* final_data.iter().position(|&b| b != 0): the index (from 0) of the first byte
\* that is not zero
PositionNonZero(final_data) ==
    LET found == {i \in 1..Len(final_data) : final_data[i] # 0}
    IN  IF found = {}
        THEN None
        ELSE Some((CHOOSE i \in found : \A j \in found : i <= j) - 1)

\* Option::unwrap_or
UnwrapOr(option, default) == IF option = None THEN default ELSE option[1]

\* let output_data = if !final_data.is_empty() && final_data[0] == 0 { .. }
OutputData(final_data) ==
    IF final_data # <<>> /\ final_data[1] = 0
    THEN IF Len(final_data) > 8 /\ SubSeq(final_data, 5, 8) = Ftyp
         THEN final_data
         ELSE LET start == UnwrapOr(PositionNonZero(final_data), 0)
              IN  SubSeq(final_data, start + 1, Len(final_data))
    ELSE final_data

(***************************************************************************)
(* The core operations of crypto.rs run by several threads at once, each   *)
(* function statement by statement.  A call has its own frame: the locals  *)
(* of the function it runs (the crate holds no static and no global).  The *)
(* fields of a frame serve the locals of whichever function runs in it.    *)
(***************************************************************************)
Threads == {1, 2}

\* faulty variant: the locals are statics, one frame for all the calls
FrameStatic(t) == 1

\* the frame of thread t's call
Frame(t) == t

\* buf: hasher / result / bf_key / step2 / output; str: id_md5 / url_part_raw;
\* str2: md5val; n: the chunk index / i / pad_len / offset
NoFrame == [buf |-> <<>>, str |-> <<>>, str2 |-> <<>>, n |-> 0]
NoCall == [op |-> "", args |-> <<>>]

\* hasher.finalize() of a hasher that absorbed len bytes
Md5Finalize(st, len) ==
    LET fin == Md5Stir(Md5Round(st, len % 256), 8)
    IN  [i \in 1..16 |->
            IF i % 2 = 1 THEN fin[(i + 1) \div 2] % 256 ELSE fin[i \div 2] \div 256] \o <<>>

\* md5_hex(data), one statement: the next pc, the frame, the value returned
Md5HexStep(args, at, l) ==
    LET data == args[1]
    IN  CASE at = "start" ->
                 [pc |-> "update", l |-> [l EXCEPT !.buf = Md5Start], result |-> <<>>]
          [] at = "update" ->
                 [pc |-> "finalize", l |-> [l EXCEPT !.buf = Md5Absorb(data, 1, l.buf)],
                  result |-> <<>>]
          [] at = "finalize" ->
                 [pc |-> "done", l |-> l,
                  result |-> HexEncode(Md5Finalize(l.buf, Len(data)))]

\* aes_ecb_encrypt(key, data), one statement or one iteration of `for chunk in
\* data.chunks(16)`
AesEcbEncryptStep(args, at, l) ==
    LET key  == args[1]
        data == args[2]
    IN  CASE at = "start" ->
                 IF Len(key) # AesBlock
                 THEN [pc |-> "panicked", l |-> l, result |-> <<>>]
                 ELSE [pc |-> "loop", l |-> [l EXCEPT !.buf = <<>>, !.n = 0],
                       result |-> <<>>]
          [] at = "loop" ->
                 IF AesBlock * l.n < Len(data)
                 THEN LET chunk == SubSeq(data, AesBlock * l.n + 1,
                                          Min(AesBlock * l.n + AesBlock, Len(data)))
                      IN  IF Len(chunk) # AesBlock
                          THEN [pc |-> "panicked", l |-> l, result |-> <<>>]
                          ELSE [pc |-> "loop",
                                l |-> [l EXCEPT !.buf = l.buf \o AesEncryptBlock(key, chunk),
                                                !.n = l.n + 1],
                                result |-> <<>>]
                 ELSE [pc |-> "done", l |-> l, result |-> HexEncode(l.buf)]

\* generate_blowfish_key(track_id), one statement or one iteration of `for i in 0..16`
GenerateBlowfishKeyStep(args, at, l) ==
    CASE at = "start" ->
             [pc |-> "loop",
              l |-> [l EXCEPT !.str = Md5Hex(args[1]), !.buf = <<>>, !.n = 0],
              result |-> <<>>]
      [] at = "loop" ->
             IF l.n < 16
             THEN IF Len(l.str) < l.n + 17
                  THEN [pc |-> "panicked", l |-> l, result |-> <<>>]
                  ELSE [pc |-> "loop",
                        l |-> [l EXCEPT
                                 !.buf = Append(l.buf,
                                     Xor(Xor(l.str[l.n + 1], l.str[l.n + 17]), Secret[l.n + 1])),
                                 !.n = l.n + 1],
                        result |-> <<>>]
             ELSE [pc |-> "done", l |-> l, result |-> l.buf]

\* generate_stream_path(sng_id, md5, media_version, format), one statement
GenerateStreamPathStep(args, at, l) ==
    CASE at = "start" ->
             [pc |-> "md5val",
              l |-> [l EXCEPT !.str = UrlPartRaw(args[1], args[2], args[3], args[4])],
              result |-> <<>>]
      [] at = "md5val" ->
             [pc |-> "step2", l |-> [l EXCEPT !.str2 = Md5Hex(l.str)], result |-> <<>>]
      [] at = "step2" ->
             [pc |-> "pad",
              l |-> [l EXCEPT !.buf = Step2(l.str2, l.str), !.n = PadLen(Step2(l.str2, l.str))],
              result |-> <<>>]
      [] at = "pad" ->
             [pc |-> "encrypt",
              l |-> [l EXCEPT !.buf = IF l.n < 16 THEN l.buf \o Dots(l.n) ELSE l.buf],
              result |-> <<>>]
      [] at = "encrypt" ->
             LET r == AesEcbEncrypt(AesKey, l.buf)
             IN  [pc |-> IF r = Panicked THEN "panicked" ELSE "done", l |-> l,
                  result |-> IF r = Panicked THEN <<>> ELSE r]

\* decrypt_stream(encrypted, blowfish_key), one statement or one iteration of the
\* while loop
DecryptStreamStep(args, at, l) ==
    CASE at = "start" ->
             [pc |-> "loop", l |-> [l EXCEPT !.buf = <<>>, !.n = 0], result |-> <<>>]
      [] at = "loop" ->
             IF l.n < Len(args[1])
             THEN LET s == LoopBody(args[1], args[2], l.n, l.buf)
                  IN  [pc |-> IF s.panicked THEN "panicked" ELSE "loop",
                       l |-> [l EXCEPT !.buf = s.output, !.n = s.offset],
                       result |-> <<>>]
             ELSE [pc |-> "done", l |-> l, result |-> l.buf]

\* the calls the threads make
ConcCalls ==
    {[op |-> "md5_hex", args |-> <<data>>] : data \in {<<>>, <<49, 55>>}}
    \cup {[op |-> "aes_ecb_encrypt", args |-> <<AesKey, data>>] :
              data \in {<<>>, Buffer(1, 32)}}
    \cup {[op |-> "generate_blowfish_key", args |-> <<id>>] : id \in {<<49, 55>>}}
    \cup {[op |-> "generate_stream_path", args |-> <<<<49, 55>>, md5, <<49>>, 3>>] :
              md5 \in {<<97>>, RefChecksum}}
    \cup {[op |-> "decrypt_stream", args |-> <<Buffer(1, len), KeyPattern(0)>>] :
              len \in {5, 2048 + 5}}

(***************************************************************************)
(* DeezerApi (api.rs): the session, and what the service answers.  A JSON  *)
(* value is a record [kind, num, str]: null, a number, a string, or a      *)
(* value of another kind; a field that is missing is Absent.               *)
(***************************************************************************)
JsonNull == [kind |-> "null", num |-> 0, str |-> <<>>]
Absent == [kind |-> "absent", num |-> 0, str |-> <<>>]
JsonNumber(n) == [kind |-> "number", num |-> n, str |-> <<>>]
JsonString(s) == [kind |-> "string", num |-> 0, str |-> s]
JsonOther == [kind |-> "other", num |-> 0, str |-> <<>>]

\* Number::as_u64: None (here <<>>) for a negative number
AsU64(v) == IF v.kind = "number" /\ v.num >= 0 THEN Some(v.num) ELSE None

RECURSIVE DigitsValue(_, _)
DigitsValue(s, acc) ==
    IF s = <<>> THEN acc ELSE DigitsValue(Tail(s), 10 * acc + (Head(s) - 48))

\* str::parse::<u64>: Ok for a non-empty string of decimal digits
ParseU64(s) ==
    IF s # <<>> /\ \A i \in 1..Len(s) : s[i] \in 48..57
    THEN Some(DigitsValue(s, 0))
    ELSE None

\* the `error` of a GW response: [] (no error), {}, an object or a string that names
\* a token error, an object that names another error
GwErrors == {"[]", "{}", "{token}", "{data}", "token"}

\* err_str.contains("invalid api token") || err_str.contains("Invalid CSRF token")
IsTokenError(error) == error \in {"{token}", "token"}

\* body.error.is_object() && !body.error.as_object().unwrap().is_empty()
IsNonEmptyObject(error) == error \in {"{token}", "{data}"}

\* the values of USER_ID, of checkForm and of OPTIONS.license_token in the answers
UserIds ==
    {JsonNumber(0), JsonNumber(5), JsonNumber(-1), JsonString(<<48>>),
     JsonString(<<55>>), JsonString(<<120>>), JsonNull}
CheckForms == {Absent, JsonString(<<116>>), JsonNumber(7), JsonOther}
LicenseTokens == {JsonString(<<108>>)}

NoBody ==
    [error |-> "[]", user_id |-> JsonNull, check_form |-> Absent,
     license_token |-> JsonNull]
NoResult == [ok |-> FALSE, value |-> ""]
Ok(v) == [ok |-> TRUE, value |-> v]
Err(e) == [ok |-> FALSE, value |-> e]

\* refresh_token after its request was answered with checkForm = check_form: the
\* Result and the api_token it leaves
RefreshToken(token, check_form) ==
    CASE check_form.kind = "absent" -> [ok |-> TRUE, api_token |-> token]
      [] check_form.kind = "string" -> [ok |-> TRUE, api_token |-> Some(check_form.str)]
      [] check_form.kind = "number" ->
             [ok |-> TRUE, api_token |-> Some(Decimal(check_form.num))]
      [] OTHER -> [ok |-> FALSE, api_token |-> token]

\* login_via_arl: let is_zero = match user_id { .. }
IsZero(user_id) ==
    CASE user_id.kind = "number" -> AsU64(user_id) = Some(0)
      [] user_id.kind = "string" -> user_id.str = <<48>>
      [] OTHER -> TRUE

\* login_via_arl: let uid = match user_id { .. }
Uid(user_id) ==
    CASE user_id.kind = "number" -> UnwrapOr(AsU64(user_id), 0)
      [] user_id.kind = "string" -> UnwrapOr(ParseU64(user_id.str), 0)
      [] OTHER -> 0

\* login_via_arl, lines 63-69: the api_token after the checkForm of user_data
StoreCheckForm(token, check_form) ==
    CASE check_form.kind = "string" -> Some(check_form.str)
      [] check_form.kind = "number" /\ AsU64(check_form) # None ->
             Some(Decimal(check_form.num))
      [] OTHER -> token

\* the CurrentUser of lines 102-110 (its id and license_token)
CurrentUser(body) ==
    [id |-> Uid(body.user_id),
     license_token |->
        IF body.license_token.kind = "string" THEN body.license_token.str ELSE <<>>]

(***************************************************************************)
(* The state machines.                                                     *)
(***************************************************************************)
Init ==
    /\ pc = "idle"
    /\ encrypted = <<>>
    /\ blowfish_key = <<>>
    /\ output = <<>>
    /\ offset = 0
    /\ plain = NoPlain
    /\ kpc = "idle"
    /\ track_id = <<>>
    /\ id_md5 = <<>>
    /\ bf_key = <<>>
    /\ upc = "idle"
    /\ url_args = NoArgs
    /\ url_locals = NoLocals
    /\ url = <<>>
    /\ upc2 = "idle"
    /\ url_args2 = NoArgs
    /\ url2 = <<>>
    /\ gpc = "idle"
    /\ g_track = NoTrack
    /\ g_current_format = "Flac"
    /\ g_fallback = None
    /\ g_try_format = None
    /\ g_return = NoReturn
    /\ g_calls = <<>>
    /\ g_via = ""
    /\ cpc = "idle"
    /\ c_chunk = <<>>
    /\ c_key = <<>>
    /\ c_buf = <<>>
    /\ tpc = "idle"
    /\ t_track = NoTrack
    /\ t_format = "Flac"
    /\ t_url = NoReturn
    /\ t_data = <<>>
    /\ t_final_data = <<>>
    /\ t_output_data = <<>>
    /\ t_file = None
    /\ t_received = <<>>
    /\ t_failed = ""
    /\ t_effects = <<>>
    /\ th_pc = [t \in Threads |-> "idle"]
    /\ th_call = [t \in Threads |-> NoCall]
    /\ th_args = [t \in Threads |-> <<>>]
    /\ th_locals = [t \in Threads |-> NoFrame]
    /\ th_result = [t \in Threads |-> <<>>]
    /\ th_owner = [t \in Threads |-> 0]
    /\ th_mixed = [t \in Threads |-> FALSE]
    /\ api_token = None
    /\ current_user = None
    /\ apc = "idle"
    /\ a_call = ""
    /\ a_method = ""
    /\ a_retried = FALSE
    /\ a_body = NoBody
    /\ a_result = NoResult
    /\ a_log = <<>>
    /\ a_logged_in = FALSE
    /\ lpc = "idle"
    /\ l_tracks = <<>>
    /\ l_i = 0
    /\ l_downloaded = 0
    /\ l_failed = 0
    /\ l_attempts = <<>>

\* decrypt_stream is entered: output = Vec::with_capacity(..), offset = 0
DecryptStreamCall ==
    /\ pc = "idle"
    /\ \E seed \in 0..MaxSeed, len \in BufferLengths, k \in 0..MaxKey,
          service \in BOOLEAN :
          LET buf == Buffer(seed, len)
              key == KeyPattern(k)
          IN  /\ blowfish_key' = key
              /\ encrypted' = IF service THEN EncryptLikeService(buf, key) ELSE buf
              /\ plain' = IF service THEN buf ELSE NoPlain
    /\ output' = <<>>
    /\ offset' = 0
    /\ pc' = "loop"
    /\ UNCHANGED <<keyVars, urlVars, url2Vars, getVars, chunkVars, trackVars, concVars,
                   apiVars, listVars>>

\* while offset < encrypted.len() { ... }
DecryptStreamLoop ==
    /\ pc = "loop"
    /\ offset < Len(encrypted)
    /\ LET s == LoopBody(encrypted, blowfish_key, offset, output)
       IN  /\ output' = s.output
           /\ offset' = s.offset
           /\ pc' = IF s.panicked THEN "panicked" ELSE "loop"
    /\ UNCHANGED <<encrypted, blowfish_key, plain>>
    /\ UNCHANGED <<keyVars, urlVars, url2Vars, getVars, chunkVars, trackVars, concVars,
                   apiVars, listVars>>

\* the loop is left and `output` is returned
DecryptStreamReturn ==
    /\ pc = "loop"
    /\ ~(offset < Len(encrypted))
    /\ pc' = "done"
    /\ UNCHANGED <<encrypted, blowfish_key, output, offset, plain>>
    /\ UNCHANGED <<keyVars, urlVars, url2Vars, getVars, chunkVars, trackVars, concVars,
                   apiVars, listVars>>

Next ==
    \/ DecryptStreamCall
    \/ DecryptStreamLoop
    \/ DecryptStreamReturn

\* decrypt_stream on the buffers and keys of the model
Spec == Init /\ [][Next]_vars

\* generate_blowfish_key(track_id)
GenerateBlowfishKeyCall ==
    /\ kpc = "idle"
    /\ \E id \in KeyTrackIds :
          LET r == GenerateBlowfishKey(id)
          IN  /\ track_id' = id
              /\ id_md5' = r.id_md5
              /\ bf_key' = r.bf_key
              /\ kpc' = IF r.bf_key = Panicked THEN "panicked" ELSE "done"
    /\ UNCHANGED <<streamVars, urlVars, url2Vars, getVars, chunkVars, trackVars, concVars,
                   apiVars, listVars>>

NextKey == GenerateBlowfishKeyCall

\* generate_blowfish_key on the track identifiers of the model
SpecKey == Init /\ [][NextKey]_vars

\* generate_crypted_stream_url(sng_id, md5, media_version, format)
GenerateCryptedStreamUrlCall ==
    /\ upc = "idle"
    /\ \E a \in UrlArgs :
          LET p == GenerateStreamPath(a.sng_id, a.md5, a.media_version, a.format)
              u == GenerateCryptedStreamUrl(a.sng_id, a.md5, a.media_version, a.format)
          IN  /\ url_args' = a
              /\ url_locals' = [url_part_raw |-> p.url_part_raw, md5val |-> p.md5val,
                                pad_len |-> p.pad_len, step2 |-> p.step2]
              /\ url' = u
              /\ upc' = IF u = Panicked THEN "panicked" ELSE "done"
    /\ UNCHANGED <<streamVars, keyVars, url2Vars, getVars, chunkVars, trackVars, concVars,
                   apiVars, listVars>>

NextUrl == GenerateCryptedStreamUrlCall

\* generate_crypted_stream_url on the arguments of the model
SpecUrl == Init /\ [][NextUrl]_vars

\* a second call, with the same arguments or with one of them changed
GenerateCryptedStreamUrlAgain ==
    /\ upc = "done"
    /\ upc2 = "idle"
    /\ \E a \in OneChanged(url_args) :
          LET u == GenerateCryptedStreamUrl(a.sng_id, a.md5, a.media_version, a.format)
          IN  /\ url_args2' = a
              /\ url2' = u
              /\ upc2' = IF u = Panicked THEN "panicked" ELSE "done"
    /\ UNCHANGED <<streamVars, keyVars, urlVars, getVars, chunkVars, trackVars, concVars,
                   apiVars, listVars>>

NextUrlPair ==
    \/ GenerateCryptedStreamUrlCall
    \/ GenerateCryptedStreamUrlAgain

\* two calls of generate_crypted_stream_url
SpecUrlPair == Init /\ [][NextUrlPair]_vars

(***************************************************************************)
(* get_download_url (download.rs:25-73), statement by statement.           *)
(***************************************************************************)
\* the tracks get_download_url is called with: no token, an empty one or "t"; no
\* checksum, an empty one, "a" or one of 32 digits; every format with or without
\* a size
GetTracks ==
    [sng_id : {<<49, 55>>}, sng_title : {<<84>>},
     track_token : {None, Some(<<>>), Some(<<116>>)},
     md5_origin : {None, Some(<<>>), Some(<<97>>), Some(RefChecksum)},
     media_version : {None},
     filesize : [TrackFormats -> {0, 1}]]

\* the function is entered: let current_format = format; and the test of the token
GetDownloadUrlEnter(track, format) ==
    /\ gpc = "idle"
    /\ g_track' = track
    /\ g_current_format' = format
    /\ gpc' = IF HasToken(track) THEN "token" ELSE "legacy"
    /\ UNCHANGED <<g_fallback, g_try_format, g_return, g_calls, g_via>>

\* the pc after a return of r, whose URL a panic may stand for
ReturnPc(r) == IF r.url = Panicked THEN "panicked" ELSE "ok"

GetDownloadUrlCall ==
    /\ \E track \in GetTracks, format \in TrackFormats :
          GetDownloadUrlEnter(track, format)
    /\ UNCHANGED <<streamVars, keyVars, urlVars, url2Vars, chunkVars, trackVars, concVars,
                   apiVars, listVars>>

\* faulty variant: after a failure for the preferred format the other formats are
\* not tried with the token
GetTrackUrlFirstNoFallback ==
    /\ gpc = "token"
    /\ \E outcome \in TrackUrlOutcomes :
          /\ g_calls' = Append(g_calls, [format |-> g_current_format, outcome |-> outcome])
          /\ IF outcome = "OkSome"
             THEN /\ g_return' = TokenReturn(MediaUrl(g_current_format), g_current_format)
                  /\ g_via' = "token"
                  /\ gpc' = "ok"
             ELSE /\ gpc' = "legacy"
                  /\ UNCHANGED <<g_return, g_via>>
    /\ UNCHANGED <<g_track, g_current_format, g_fallback, g_try_format>>
    /\ UNCHANGED <<streamVars, keyVars, urlVars, url2Vars, chunkVars, trackVars, concVars,
                   apiVars, listVars>>

\* if let Ok(Some(url)) = api.get_track_url(token, current_format.api_name()).await
\* { return .. }  let mut fallback = current_format.fallback();
GetTrackUrlFirst ==
    /\ gpc = "token"
    /\ \E outcome \in TrackUrlOutcomes :
          /\ g_calls' = Append(g_calls, [format |-> g_current_format, outcome |-> outcome])
          /\ IF outcome = "OkSome"
             THEN /\ g_return' = TokenReturn(MediaUrl(g_current_format), g_current_format)
                  /\ g_via' = "token"
                  /\ gpc' = "ok"
                  /\ UNCHANGED g_fallback
             ELSE /\ g_fallback' = Fallback(g_current_format)
                  /\ gpc' = "fallback"
                  /\ UNCHANGED <<g_return, g_via>>
    /\ UNCHANGED <<g_track, g_current_format, g_try_format>>
    /\ UNCHANGED <<streamVars, keyVars, urlVars, url2Vars, chunkVars, trackVars, concVars,
                   apiVars, listVars>>

\* faulty variant: the URL of a fallback format is returned with the format asked for
GetTrackUrlFallbackAsRequested ==
    /\ gpc = "fallback"
    /\ g_fallback # None
    /\ LET fb == g_fallback[1]
       IN  \E outcome \in TrackUrlOutcomes :
              /\ g_calls' = Append(g_calls, [format |-> fb, outcome |-> outcome])
              /\ IF outcome = "OkSome"
                 THEN /\ g_return' = TokenReturn(MediaUrl(fb), g_current_format)
                      /\ g_via' = "token"
                      /\ gpc' = "ok"
                      /\ UNCHANGED g_fallback
                 ELSE /\ g_fallback' = Fallback(fb)
                      /\ UNCHANGED <<gpc, g_return, g_via>>
    /\ UNCHANGED <<g_track, g_current_format, g_try_format>>
    /\ UNCHANGED <<streamVars, keyVars, urlVars, url2Vars, chunkVars, trackVars, concVars,
                   apiVars, listVars>>

\* while let Some(fb) = fallback { if let Ok(Some(url)) = .. { return .. }
\* fallback = fb.fallback(); }
GetTrackUrlFallback ==
    /\ gpc = "fallback"
    /\ g_fallback # None
    /\ LET fb == g_fallback[1]
       IN  \E outcome \in TrackUrlOutcomes :
              /\ g_calls' = Append(g_calls, [format |-> fb, outcome |-> outcome])
              /\ IF outcome = "OkSome"
                 THEN /\ g_return' = TokenReturn(MediaUrl(fb), fb)
                      /\ g_via' = "token"
                      /\ gpc' = "ok"
                      /\ UNCHANGED g_fallback
                 ELSE /\ g_fallback' = Fallback(fb)
                      /\ UNCHANGED <<gpc, g_return, g_via>>
    /\ UNCHANGED <<g_track, g_current_format, g_try_format>>
    /\ UNCHANGED <<streamVars, keyVars, urlVars, url2Vars, chunkVars, trackVars, concVars,
                   apiVars, listVars>>

\* the while of line 41 ends: fallback is None
GetTrackUrlGiveUp ==
    /\ gpc = "fallback"
    /\ g_fallback = None
    /\ gpc' = "legacy"
    /\ UNCHANGED <<g_track, g_current_format, g_fallback, g_try_format, g_return,
                   g_calls, g_via>>
    /\ UNCHANGED <<streamVars, keyVars, urlVars, url2Vars, chunkVars, trackVars, concVars,
                   apiVars, listVars>>

\* faulty variant: the test of the empty checksum is missing
LegacyStartNoBail ==
    /\ gpc = "legacy"
    /\ gpc' = "sized"
    /\ g_try_format' = Some(g_current_format)
    /\ UNCHANGED <<g_track, g_current_format, g_fallback, g_return, g_calls, g_via>>
    /\ UNCHANGED <<streamVars, keyVars, urlVars, url2Vars, chunkVars, trackVars, concVars,
                   apiVars, listVars>>

\* let md5 = track.md5(); .. if md5.is_empty() { bail!(..) }
\* let mut try_format = Some(current_format);
LegacyStart ==
    /\ gpc = "legacy"
    /\ IF Md5Of(g_track) = <<>>
       THEN /\ gpc' = "err"
            /\ UNCHANGED g_try_format
       ELSE /\ gpc' = "sized"
            /\ g_try_format' = Some(g_current_format)
    /\ UNCHANGED <<g_track, g_current_format, g_fallback, g_return, g_calls, g_via>>
    /\ UNCHANGED <<streamVars, keyVars, urlVars, url2Vars, chunkVars, trackVars, concVars,
                   apiVars, listVars>>

\* faulty variant: the URL is built with the code of the format asked for
LegacySizedCodeOfRequested ==
    /\ gpc = "sized"
    /\ g_try_format # None
    /\ LET fmt == g_try_format[1]
           r   == LegacyReturn(LegacyUrl(g_track, g_current_format), fmt)
       IN  IF FilesizeForFormat(g_track, fmt) > 0
           THEN /\ g_return' = r
                /\ g_via' = "sized"
                /\ gpc' = ReturnPc(r)
                /\ UNCHANGED g_try_format
           ELSE /\ g_try_format' = Fallback(fmt)
                /\ UNCHANGED <<gpc, g_return, g_via>>
    /\ UNCHANGED <<g_track, g_current_format, g_fallback, g_calls>>
    /\ UNCHANGED <<streamVars, keyVars, urlVars, url2Vars, chunkVars, trackVars, concVars,
                   apiVars, listVars>>

\* while let Some(fmt) = try_format { if track.filesize_for_format(fmt) > 0
\* { return .. } try_format = fmt.fallback(); }
LegacySized ==
    /\ gpc = "sized"
    /\ g_try_format # None
    /\ LET fmt == g_try_format[1]
           r   == LegacyReturn(LegacyUrl(g_track, fmt), fmt)
       IN  IF FilesizeForFormat(g_track, fmt) > 0
           THEN /\ g_return' = r
                /\ g_via' = "sized"
                /\ gpc' = ReturnPc(r)
                /\ UNCHANGED g_try_format
           ELSE /\ g_try_format' = Fallback(fmt)
                /\ UNCHANGED <<gpc, g_return, g_via>>
    /\ UNCHANGED <<g_track, g_current_format, g_fallback, g_calls>>
    /\ UNCHANGED <<streamVars, keyVars, urlVars, url2Vars, chunkVars, trackVars, concVars,
                   apiVars, listVars>>

\* the last resort: the URL of the preferred format
LegacyLastResort ==
    /\ gpc = "sized"
    /\ g_try_format = None
    /\ LET r == LegacyReturn(LegacyUrl(g_track, g_current_format), g_current_format)
       IN  /\ g_return' = r
           /\ g_via' = "last"
           /\ gpc' = ReturnPc(r)
    /\ UNCHANGED <<g_track, g_current_format, g_fallback, g_try_format, g_calls>>
    /\ UNCHANGED <<streamVars, keyVars, urlVars, url2Vars, chunkVars, trackVars, concVars,
                   apiVars, listVars>>

\* one call at a time: of get_download_url, or of generate_crypted_stream_url by
\* any other caller
NextGet ==
    \/ upc = "idle" /\ GetDownloadUrlCall
    \/ GetTrackUrlFirst
    \/ GetTrackUrlFallback
    \/ GetTrackUrlGiveUp
    \/ LegacyStart
    \/ LegacySized
    \/ LegacyLastResort
    \/ gpc = "idle" /\ GenerateCryptedStreamUrlCall

\* get_download_url on the tracks of the model, and generate_crypted_stream_url
SpecGet == Init /\ [][NextGet]_vars


(***************************************************************************)
(* decrypt_chunk and decrypt_stream as any caller may call them: with a    *)
(* region of any length, with a key of any length.                         *)
(***************************************************************************)
\* keys of 0, 3, 4, 8, 16, 56 and 57 bytes
KeyLengths == {0, 3, 4, 8, 16, 56, 57}
KeyOfLen(n) == [i \in 1..n |-> (41 + 3 * i) % 256] \o <<>>

\* decrypt_chunk(chunk, blowfish_key), called on its own
DecryptChunkCall ==
    /\ cpc = "idle"
    /\ \E seed \in 0..MaxSeed, len \in 0..MaxRegionLen, n \in KeyLengths :
          LET chunk == Buffer(seed, len)
              key   == KeyOfLen(n)
              buf   == DecryptChunk(chunk, key)
          IN  /\ c_chunk' = chunk
              /\ c_key' = key
              /\ c_buf' = IF buf = Panicked THEN <<>> ELSE buf
              /\ cpc' = IF buf = Panicked THEN "panicked" ELSE "done"
    /\ UNCHANGED <<streamVars, keyVars, urlVars, url2Vars, getVars, trackVars, concVars,
                   apiVars, listVars>>

\* decrypt_stream(encrypted, blowfish_key) with a key of any length
DecryptStreamCallAnyKey ==
    /\ pc = "idle"
    /\ \E seed \in 0..MaxSeed, len \in {0, 1, 2047, 2048, 2049, 6145}, n \in KeyLengths :
          /\ blowfish_key' = KeyOfLen(n)
          /\ encrypted' = Buffer(seed, len)
    /\ plain' = NoPlain
    /\ output' = <<>>
    /\ offset' = 0
    /\ pc' = "loop"
    /\ UNCHANGED <<keyVars, urlVars, url2Vars, getVars, chunkVars, trackVars, concVars,
                   apiVars, listVars>>

\* one call at a time
NextAnyCaller ==
    \/ pc = "idle" /\ DecryptChunkCall
    \/ cpc = "idle" /\ DecryptStreamCallAnyKey
    \/ DecryptStreamLoop
    \/ DecryptStreamReturn

\* decrypt_chunk on short regions, decrypt_stream with keys of any length
SpecAnyCaller == Init /\ [][NextAnyCaller]_vars

(***************************************************************************)
(* download_track (download.rs:76-187), statement by statement.  The calls *)
(* of get_download_url and of decrypt_stream run the state machines of     *)
(* these functions; the file system and the HTTP exchange answer any way   *)
(* they can.                                                               *)
(***************************************************************************)
\* a track with an identifier, a title and a checksum, no token, no size
PlainTrack ==
    [sng_id |-> <<49, 55>>, sng_title |-> <<84>>, track_token |-> None,
     md5_origin |-> Some(<<97>>), media_version |-> None,
     filesize |-> [f \in TrackFormats |-> 0]]

\* the calls of download_track: a track with a token, one with a size for Mp3_128
\* only, one without sizes, one without checksum, one with the identifier "0", one
\* whose title is a space
DownloadCalls ==
    {[track |-> [PlainTrack EXCEPT !.track_token = Some(<<116>>)], format |-> "Mp3_320"],
     [track |-> [PlainTrack EXCEPT !.filesize["Mp3_128"] = 1], format |-> "Mp3_320"],
     [track |-> PlainTrack, format |-> "Flac"],
     [track |-> [PlainTrack EXCEPT !.md5_origin = None], format |-> "Mp3_128"],
     [track |-> [PlainTrack EXCEPT !.sng_id = <<48>>], format |-> "Flac"],
     [track |-> [PlainTrack EXCEPT !.sng_title = <<32>>], format |-> "Flac"]}

\* the chunks the stream gives: four zero bytes, "ftyp", "ftyp" and two bytes more,
\* 0 0 1 2 3, and 2048 bytes
StreamChunks ==
    {<<0, 0, 0, 0>>, Ftyp, Ftyp \o <<0, 7>>, <<0, 0, 1, 2, 3>>, Buffer(1, 2048)}

\* download_track(api, track, format, ..) is entered: lines 83-89
DownloadTrackEnter(track, format) ==
    /\ t_track' = track
    /\ t_format' = format
    /\ IF InvalidTrackData(track)
       THEN tpc' = "err" /\ t_failed' = "invalid"
       ELSE tpc' = "url" /\ t_failed' = ""
    /\ t_url' = NoReturn
    /\ t_data' = <<>>
    /\ t_final_data' = <<>>
    /\ t_output_data' = <<>>
    /\ t_file' = None
    /\ t_received' = <<>>
    /\ t_effects' = <<>>

DownloadTrackCall ==
    /\ tpc = "idle"
    /\ gpc = "idle"
    /\ kpc = "idle"
    /\ pc = "idle"
    /\ \E c \in DownloadCalls : DownloadTrackEnter(c.track, c.format)
    /\ UNCHANGED <<streamVars, keyVars, urlVars, url2Vars, getVars, chunkVars, concVars,
                   apiVars, listVars>>

\* get_download_url(api, track, format) is called
DownloadTrackGetUrl ==
    /\ tpc = "url"
    /\ GetDownloadUrlEnter(t_track, t_format)
    /\ tpc' = "geturl"
    /\ UNCHANGED <<t_track, t_format, t_url, t_data, t_final_data, t_output_data,
                   t_file, t_received, t_failed, t_effects>>
    /\ UNCHANGED <<streamVars, keyVars, urlVars, url2Vars, chunkVars, concVars,
                   apiVars, listVars>>

\* let (url, actual_format, is_crypted) = get_download_url(..).await?;
DownloadTrackGotUrl ==
    /\ tpc = "geturl"
    /\ gpc \in {"ok", "err", "panicked"}
    /\ IF gpc = "ok"
       THEN tpc' = "dir" /\ t_url' = g_return /\ UNCHANGED t_failed
       ELSE IF gpc = "err"
       THEN tpc' = "err" /\ t_failed' = "url" /\ UNCHANGED t_url
       ELSE tpc' = "panicked" /\ UNCHANGED <<t_url, t_failed>>
    /\ UNCHANGED <<t_track, t_format, t_data, t_final_data, t_output_data, t_file,
                   t_received, t_effects>>
    /\ UNCHANGED <<streamVars, keyVars, urlVars, url2Vars, getVars, chunkVars, concVars,
                   apiVars, listVars>>

\* fs::create_dir_all(&track_dir).await?;
DownloadTrackCreateDir ==
    /\ tpc = "dir"
    /\ \E created \in BOOLEAN :
          IF created
          THEN tpc' = "exists" /\ UNCHANGED t_failed
          ELSE tpc' = "err" /\ t_failed' = "dir"
    /\ UNCHANGED <<t_track, t_format, t_url, t_data, t_final_data, t_output_data,
                   t_file, t_received, t_effects>>
    /\ UNCHANGED <<streamVars, keyVars, urlVars, url2Vars, getVars, chunkVars, concVars,
                   apiVars, listVars>>

\* faulty variant: a file found at filepath does not stop the download
DownloadTrackExistsIgnored ==
    /\ tpc = "exists"
    /\ \E exists \in BOOLEAN :
          /\ tpc' = "send"
          /\ t_effects' = IF exists THEN Append(t_effects, "exists") ELSE t_effects
    /\ UNCHANGED <<t_track, t_format, t_url, t_data, t_final_data, t_output_data,
                   t_file, t_received, t_failed>>
    /\ UNCHANGED <<streamVars, keyVars, urlVars, url2Vars, getVars, chunkVars, concVars,
                   apiVars, listVars>>

\* if filepath.exists() { .. return Ok(filepath); }
DownloadTrackExists ==
    /\ tpc = "exists"
    /\ \E exists \in BOOLEAN :
          /\ tpc' = IF exists THEN "done" ELSE "send"
          /\ t_effects' = IF exists THEN Append(t_effects, "exists") ELSE t_effects
    /\ UNCHANGED <<t_track, t_format, t_url, t_data, t_final_data, t_output_data,
                   t_file, t_received, t_failed>>
    /\ UNCHANGED <<streamVars, keyVars, urlVars, url2Vars, getVars, chunkVars, concVars,
                   apiVars, listVars>>

\* the client is built, the request sent, the status tested: lines 111-124; then
\* let mut data = Vec::with_capacity(..); let mut stream = response.bytes_stream();
DownloadTrackSend ==
    /\ tpc = "send"
    /\ \E answer \in {"build", "send", "status", "success"} :
          /\ IF answer = "success"
             THEN tpc' = "stream" /\ UNCHANGED t_failed
             ELSE tpc' = "err" /\ t_failed' = answer
          /\ t_effects' = IF answer = "build" THEN t_effects
                          ELSE Append(t_effects, "request")
    /\ t_data' = <<>>
    /\ UNCHANGED <<t_track, t_format, t_url, t_final_data, t_output_data, t_file,
                   t_received>>
    /\ UNCHANGED <<streamVars, keyVars, urlVars, url2Vars, getVars, chunkVars, concVars,
                   apiVars, listVars>>

\* faulty variant: a chunk that cannot be read ends the loop like the end of the stream
DownloadTrackChunkErrorIgnored ==
    /\ tpc = "stream"
    /\ tpc' = IF t_data = <<>> THEN "err" ELSE "key"
    /\ t_failed' = IF t_data = <<>> THEN "empty" ELSE "chunk"
    /\ UNCHANGED <<t_track, t_format, t_url, t_data, t_final_data, t_output_data,
                   t_file, t_received, t_effects>>
    /\ UNCHANGED <<streamVars, keyVars, urlVars, url2Vars, getVars, chunkVars, concVars,
                   apiVars, listVars>>

\* stream.next().await is Some(Err(..)): chunk.context("Error reading download stream")?
DownloadTrackChunkError ==
    /\ tpc = "stream"
    /\ tpc' = "err"
    /\ t_failed' = "chunk"
    /\ UNCHANGED <<t_track, t_format, t_url, t_data, t_final_data, t_output_data,
                   t_file, t_received, t_effects>>
    /\ UNCHANGED <<streamVars, keyVars, urlVars, url2Vars, getVars, chunkVars, concVars,
                   apiVars, listVars>>

\* stream.next().await is Some(Ok(chunk)): data.extend_from_slice(&chunk);
DownloadTrackChunk ==
    /\ tpc = "stream"
    /\ Len(t_received) < MaxStreamChunks
    /\ \E chunk \in StreamChunks :
          /\ t_data' = t_data \o chunk
          /\ t_received' = Append(t_received, chunk)
    /\ UNCHANGED <<tpc, t_track, t_format, t_url, t_final_data, t_output_data, t_file,
                   t_failed, t_effects>>
    /\ UNCHANGED <<streamVars, keyVars, urlVars, url2Vars, getVars, chunkVars, concVars,
                   apiVars, listVars>>

\* stream.next().await is None; if data.is_empty() { bail!("Downloaded file is empty"); }
DownloadTrackStreamEnd ==
    /\ tpc = "stream"
    /\ IF t_data = <<>>
       THEN tpc' = "err" /\ t_failed' = "empty"
       ELSE tpc' = "key" /\ UNCHANGED t_failed
    /\ UNCHANGED <<t_track, t_format, t_url, t_data, t_final_data, t_output_data,
                   t_file, t_received, t_effects>>
    /\ UNCHANGED <<streamVars, keyVars, urlVars, url2Vars, getVars, chunkVars, concVars,
                   apiVars, listVars>>

\* if is_crypted { let blowfish_key = crypto::generate_blowfish_key(&sng_id); ..
\* } else { data }
DownloadTrackKey ==
    /\ tpc = "key"
    /\ IF t_url.is_crypted
       THEN LET r == GenerateBlowfishKey(IdStr(t_track))
            IN  /\ track_id' = IdStr(t_track)
                /\ id_md5' = r.id_md5
                /\ bf_key' = r.bf_key
                /\ kpc' = IF r.bf_key = Panicked THEN "panicked" ELSE "done"
                /\ tpc' = IF r.bf_key = Panicked THEN "panicked" ELSE "decrypt"
                /\ UNCHANGED t_final_data
       ELSE /\ t_final_data' = t_data
            /\ tpc' = "strip"
            /\ UNCHANGED keyVars
    /\ UNCHANGED <<t_track, t_format, t_url, t_data, t_output_data, t_file, t_received,
                   t_failed, t_effects>>
    /\ UNCHANGED <<streamVars, urlVars, url2Vars, getVars, chunkVars, concVars,
                   apiVars, listVars>>

\* crypto::decrypt_stream(&data, &blowfish_key) is called
DownloadTrackDecrypt ==
    /\ tpc = "decrypt"
    /\ pc = "idle"
    /\ encrypted' = t_data
    /\ blowfish_key' = bf_key
    /\ plain' = NoPlain
    /\ output' = <<>>
    /\ offset' = 0
    /\ pc' = "loop"
    /\ tpc' = "decrypting"
    /\ UNCHANGED <<t_track, t_format, t_url, t_data, t_final_data, t_output_data,
                   t_file, t_received, t_failed, t_effects>>
    /\ UNCHANGED <<keyVars, urlVars, url2Vars, getVars, chunkVars, concVars,
                   apiVars, listVars>>

\* let final_data = .. : decrypt_stream has returned
DownloadTrackDecrypted ==
    /\ tpc = "decrypting"
    /\ pc \in {"done", "panicked"}
    /\ IF pc = "done"
       THEN tpc' = "strip" /\ t_final_data' = output
       ELSE tpc' = "panicked" /\ UNCHANGED t_final_data
    /\ UNCHANGED <<t_track, t_format, t_url, t_data, t_output_data, t_file, t_received,
                   t_failed, t_effects>>
    /\ UNCHANGED <<streamVars, keyVars, urlVars, url2Vars, getVars, chunkVars, concVars,
                   apiVars, listVars>>

\* let output_data = ..: lines 169-179
DownloadTrackStrip ==
    /\ tpc = "strip"
    /\ t_output_data' = OutputData(t_final_data)
    /\ tpc' = "write"
    /\ UNCHANGED <<t_track, t_format, t_url, t_data, t_final_data, t_file, t_received,
                   t_failed, t_effects>>
    /\ UNCHANGED <<streamVars, keyVars, urlVars, url2Vars, getVars, chunkVars, concVars,
                   apiVars, listVars>>

\* File::create(&filepath).await?; file.write_all(&output_data).await?;
\* file.flush().await?; Ok(filepath): the file is not created, or created and
\* written in part, or written
DownloadTrackWrite ==
    /\ tpc = "write"
    /\ \E answer \in {"create", "write", "written"} :
          /\ t_file' = IF answer = "create"
                       THEN None
                       ELSE IF answer = "write"
                       THEN Some(SubSeq(t_output_data, 1, Len(t_output_data) \div 2))
                       ELSE Some(t_output_data)
          /\ tpc' = IF answer = "written" THEN "done" ELSE "err"
          /\ t_failed' = IF answer = "written" THEN t_failed ELSE answer
    /\ t_effects' = Append(t_effects, "create")
    /\ UNCHANGED <<t_track, t_format, t_url, t_data, t_final_data, t_output_data,
                   t_received>>
    /\ UNCHANGED <<streamVars, keyVars, urlVars, url2Vars, getVars, chunkVars, concVars,
                   apiVars, listVars>>

NextTrack ==
    \/ DownloadTrackCall
    \/ DownloadTrackGetUrl
    \/ GetTrackUrlFirst
    \/ GetTrackUrlFallback
    \/ GetTrackUrlGiveUp
    \/ LegacyStart
    \/ LegacySized
    \/ LegacyLastResort
    \/ DownloadTrackGotUrl
    \/ DownloadTrackCreateDir
    \/ DownloadTrackExists
    \/ DownloadTrackSend
    \/ DownloadTrackChunk
    \/ DownloadTrackChunkError
    \/ DownloadTrackStreamEnd
    \/ DownloadTrackKey
    \/ DownloadTrackDecrypt
    \/ DecryptStreamLoop
    \/ DecryptStreamReturn
    \/ DownloadTrackDecrypted
    \/ DownloadTrackStrip
    \/ DownloadTrackWrite

\* one call of download_track
SpecTrack == Init /\ [][NextTrack]_vars

(***************************************************************************)
(* Concurrent invocations of the core operations.                          *)
(***************************************************************************)
\* a call of thread t is between its first statement and its return
UnderWay(t) == th_pc[t] \notin {"idle", "done", "panicked"}

OthersUnderWay(t) == \E u \in Threads \ {t} : UnderWay(u)

\* thread t calls one of the functions: its frame is set up
Invoke(t) ==
    /\ th_pc[t] = "idle"
    /\ \E c \in ConcCalls :
          /\ th_call' = [th_call EXCEPT ![t] = c]
          /\ th_args' = [th_args EXCEPT ![t] = c.args]
    /\ th_pc' = [th_pc EXCEPT ![t] = "start"]
    /\ th_locals' = [th_locals EXCEPT ![Frame(t)] = NoFrame]
    /\ th_owner' = [th_owner EXCEPT ![Frame(t)] = t]
    /\ th_mixed' = [th_mixed EXCEPT ![t] = @ \/ OthersUnderWay(t)]
    /\ UNCHANGED th_result
    /\ UNCHANGED <<streamVars, keyVars, urlVars, url2Vars, getVars, chunkVars, trackVars,
                   apiVars, listVars>>

\* thread t, running op, executes its next statement, by the step function of op
Run(t, op, s) ==
    /\ UnderWay(t)
    /\ th_call[t].op = op
    /\ th_pc' = [th_pc EXCEPT ![t] = s.pc]
    /\ th_locals' = [th_locals EXCEPT ![Frame(t)] = s.l]
    /\ th_owner' = [th_owner EXCEPT ![Frame(t)] = t]
    /\ th_mixed' = [th_mixed EXCEPT ![t] = @ \/ OthersUnderWay(t)]
    /\ th_result' = [th_result EXCEPT ![t] = s.result]
    /\ UNCHANGED <<th_call, th_args>>
    /\ UNCHANGED <<streamVars, keyVars, urlVars, url2Vars, getVars, chunkVars, trackVars,
                   apiVars, listVars>>

Md5HexRun(t) ==
    Run(t, "md5_hex", Md5HexStep(th_args[t], th_pc[t], th_locals[Frame(t)]))

AesEcbEncryptRun(t) ==
    Run(t, "aes_ecb_encrypt", AesEcbEncryptStep(th_args[t], th_pc[t], th_locals[Frame(t)]))

GenerateBlowfishKeyRun(t) ==
    Run(t, "generate_blowfish_key",
        GenerateBlowfishKeyStep(th_args[t], th_pc[t], th_locals[Frame(t)]))

GenerateStreamPathRun(t) ==
    Run(t, "generate_stream_path",
        GenerateStreamPathStep(th_args[t], th_pc[t], th_locals[Frame(t)]))

DecryptStreamRun(t) ==
    Run(t, "decrypt_stream", DecryptStreamStep(th_args[t], th_pc[t], th_locals[Frame(t)]))

\* any thread takes the next step
NextConc ==
    \E t \in Threads :
        \/ Invoke(t)
        \/ Md5HexRun(t)
        \/ AesEcbEncryptRun(t)
        \/ GenerateBlowfishKeyRun(t)
        \/ GenerateStreamPathRun(t)
        \/ DecryptStreamRun(t)

\* two threads, each calling one core operation, interleaved statement by statement
SpecConc == Init /\ [][NextConc]_vars

(***************************************************************************)
(* download_playlist (download.rs:190-235), with the calls of              *)
(* download_track it makes.                                                *)
(***************************************************************************)
\* the tracks of the playlists: one whose identifier is "0", which download_track
\* refuses, and one with a checksum and a size for Mp3_128
ListTrackKinds ==
    {[PlainTrack EXCEPT !.sng_id = <<48>>], [PlainTrack EXCEPT !.filesize["Mp3_128"] = 1]}

\* what api.get_playlist_tracks(playlist_id) may return
Playlists == UNION {[1..n -> ListTrackKinds] : n \in 0..MaxPlaylistLen}

\* the argument `format` of download_playlist
ListFormat == "Mp3_320"

\* the chunk the download streams of the playlist give
ListChunk == <<0, 0, 1, 2, 3>>

\* pub async fn download_playlist(api, playlist_id, format, output_dir)
DownloadPlaylistCall ==
    /\ lpc = "idle"
    /\ lpc' = "info"
    /\ UNCHANGED <<l_tracks, l_i, l_downloaded, l_failed, l_attempts>>
    /\ UNCHANGED <<streamVars, keyVars, urlVars, url2Vars, getVars, chunkVars, trackVars,
                   concVars, apiVars>>

\* let info = api.get_playlist_info(playlist_id).await?;
DownloadPlaylistInfo ==
    /\ lpc = "info"
    /\ \E fetched \in BOOLEAN : lpc' = IF fetched THEN "tracks" ELSE "err"
    /\ UNCHANGED <<l_tracks, l_i, l_downloaded, l_failed, l_attempts>>
    /\ UNCHANGED <<streamVars, keyVars, urlVars, url2Vars, getVars, chunkVars, trackVars,
                   concVars, apiVars>>

\* let tracks = api.get_playlist_tracks(playlist_id).await?; let total = tracks.len();
\* let mut downloaded = 0; let mut failed = 0;
DownloadPlaylistTracks ==
    /\ lpc = "tracks"
    /\ \/ lpc' = "err" /\ UNCHANGED l_tracks
       \/ \E tracks \in Playlists : l_tracks' = tracks /\ lpc' = "loop"
    /\ l_i' = 0
    /\ l_downloaded' = 0
    /\ l_failed' = 0
    /\ UNCHANGED l_attempts
    /\ UNCHANGED <<streamVars, keyVars, urlVars, url2Vars, getVars, chunkVars, trackVars,
                   concVars, apiVars>>

\* for (i, track) in tracks.iter().enumerate() { .. download_track(api, track, format,
\* &playlist_dir, true) is called: the frames of the callees are new
DownloadPlaylistTrack ==
    /\ lpc = "loop"
    /\ l_i < Len(l_tracks)
    /\ DownloadTrackEnter(l_tracks[l_i + 1], ListFormat)
    /\ l_attempts' = Append(l_attempts, l_tracks[l_i + 1])
    /\ lpc' = "track"
    /\ gpc' = "idle"
    /\ g_track' = NoTrack
    /\ g_current_format' = "Flac"
    /\ g_fallback' = None
    /\ g_try_format' = None
    /\ g_return' = NoReturn
    /\ g_calls' = <<>>
    /\ g_via' = ""
    /\ pc' = "idle"
    /\ encrypted' = <<>>
    /\ blowfish_key' = <<>>
    /\ output' = <<>>
    /\ offset' = 0
    /\ plain' = NoPlain
    /\ kpc' = "idle"
    /\ track_id' = <<>>
    /\ id_md5' = <<>>
    /\ bf_key' = <<>>
    /\ UNCHANGED <<l_tracks, l_i, l_downloaded, l_failed>>
    /\ UNCHANGED <<urlVars, url2Vars, chunkVars, concVars, apiVars>>

\* faulty variant: the error of a track is passed on, as by `?`
DownloadPlaylistTrackDoneOrAbort ==
    /\ lpc = "track"
    /\ tpc \in {"done", "err", "panicked"}
    /\ lpc' = IF tpc = "done" THEN "loop" ELSE "err"
    /\ l_i' = l_i + 1
    /\ l_downloaded' = IF tpc = "done" THEN l_downloaded + 1 ELSE l_downloaded
    /\ UNCHANGED <<l_tracks, l_failed, l_attempts>>
    /\ UNCHANGED <<streamVars, keyVars, urlVars, url2Vars, getVars, chunkVars, trackVars,
                   concVars, apiVars>>

\* match download_track(..).await { Ok(_) => { downloaded += 1; .. } Err(e) =>
\* { failed += 1; .. } }
DownloadPlaylistTrackDone ==
    /\ lpc = "track"
    /\ tpc \in {"done", "err", "panicked"}
    /\ lpc' = IF tpc = "panicked" THEN "panicked" ELSE "loop"
    /\ l_i' = IF tpc = "panicked" THEN l_i ELSE l_i + 1
    /\ l_downloaded' = IF tpc = "done" THEN l_downloaded + 1 ELSE l_downloaded
    /\ l_failed' = IF tpc = "err" THEN l_failed + 1 ELSE l_failed
    /\ UNCHANGED <<l_tracks, l_attempts>>
    /\ UNCHANGED <<streamVars, keyVars, urlVars, url2Vars, getVars, chunkVars, trackVars,
                   concVars, apiVars>>

\* the for loop is over: println!(..); Ok(())
DownloadPlaylistReturn ==
    /\ lpc = "loop"
    /\ ~(l_i < Len(l_tracks))
    /\ lpc' = "done"
    /\ UNCHANGED <<l_tracks, l_i, l_downloaded, l_failed, l_attempts>>
    /\ UNCHANGED <<streamVars, keyVars, urlVars, url2Vars, getVars, chunkVars, trackVars,
                   concVars, apiVars>>

NextList ==
    \/ DownloadPlaylistCall
    \/ DownloadPlaylistInfo
    \/ DownloadPlaylistTracks
    \/ DownloadPlaylistTrack
    \/ lpc = "track" /\ DownloadTrackGetUrl
    \/ lpc = "track" /\ LegacyStart
    \/ lpc = "track" /\ LegacySized
    \/ lpc = "track" /\ DownloadTrackGotUrl
    \/ lpc = "track" /\ DownloadTrackCreateDir
    \/ lpc = "track" /\ DownloadTrackExists
    \/ lpc = "track" /\ DownloadTrackSend
    \/ lpc = "track" /\ DownloadTrackChunk /\ t_received'[Len(t_received')] = ListChunk
    \/ lpc = "track" /\ DownloadTrackChunkError
    \/ lpc = "track" /\ DownloadTrackStreamEnd
    \/ lpc = "track" /\ DownloadTrackKey
    \/ lpc = "track" /\ DownloadTrackDecrypt
    \/ lpc = "track" /\ DecryptStreamLoop
    \/ lpc = "track" /\ DecryptStreamReturn
    \/ lpc = "track" /\ DownloadTrackDecrypted
    \/ lpc = "track" /\ DownloadTrackStrip
    \/ lpc = "track" /\ DownloadTrackWrite
    \/ DownloadPlaylistTrackDone
    \/ DownloadPlaylistReturn

\* one call of download_playlist
SpecList == Init /\ [][NextList]_vars

(***************************************************************************)
(* DeezerApi (api.rs): gw_call, refresh_token, login_via_arl and           *)
(* get_track_url on one session, one call after the other.                 *)
(***************************************************************************)
\* no call is under way
ApiIdle == apc \in {"idle", "ok", "err"}

\* the methods gw_call is called with
GwMethods == {"deezer.getUserData", "song.getData"}

\* how the request of refresh_token ends: with an error (the send or the parsing of
\* the body), or with a body whose results.checkForm is check_form
RefreshAnswers ==
    {[failed |-> TRUE, check_form |-> Absent]}
    \cup {[failed |-> FALSE, check_form |-> c] : c \in CheckForms}

\* self.refresh_token().await: the Result and the api_token it leaves
RefreshTokenRun(token, answer) ==
    IF answer.failed
    THEN [ok |-> FALSE, api_token |-> token]
    ELSE RefreshToken(token, answer.check_form)

\* pub async fn gw_call(&self, method: &str, args: Value): let mut retried = false;
GwCallCall ==
    /\ ApiIdle
    /\ \E method \in GwMethods : a_method' = method
    /\ a_call' = "gw_call"
    /\ a_retried' = FALSE
    /\ a_body' = NoBody
    /\ a_result' = NoResult
    /\ a_log' = <<>>
    /\ apc' = "gw_token"
    /\ UNCHANGED <<api_token, current_user, a_logged_in>>
    /\ UNCHANGED <<streamVars, keyVars, urlVars, url2Vars, getVars, chunkVars, trackVars,
                   concVars, listVars>>

\* let api_token = if method == "deezer.getUserData" { "null" } else { match
\* token.as_ref() { Some(t) => .., None => { self.refresh_token().await?; .. } } };
GwCallToken ==
    /\ apc = "gw_token"
    /\ IF a_method = "deezer.getUserData" \/ api_token # None
       THEN /\ apc' = "gw_send"
            /\ UNCHANGED <<api_token, a_result, a_log>>
       ELSE \E answer \in RefreshAnswers :
               LET r == RefreshTokenRun(api_token, answer)
               IN  /\ api_token' = r.api_token
                   /\ a_log' = Append(a_log, "refresh")
                   /\ apc' = IF r.ok THEN "gw_send" ELSE "err"
                   /\ a_result' = IF r.ok THEN a_result ELSE Err("refresh_token")
    /\ UNCHANGED <<current_user, a_call, a_method, a_retried, a_body, a_logged_in>>
    /\ UNCHANGED <<streamVars, keyVars, urlVars, url2Vars, getVars, chunkVars, trackVars,
                   concVars, listVars>>

\* the request of `method` is sent and its body parsed (lines 179-196)
GwCallSend ==
    /\ apc = "gw_send"
    /\ a_log' = Append(a_log, "method")
    /\ \/ /\ apc' = "err"
          /\ a_result' = Err("GW API call failed")
          /\ UNCHANGED a_body
       \/ \E error \in GwErrors :
             /\ a_body' = [NoBody EXCEPT !.error = error]
             /\ apc' = "gw_check"
             /\ UNCHANGED a_result
    /\ UNCHANGED <<api_token, current_user, a_call, a_method, a_retried, a_logged_in>>
    /\ UNCHANGED <<streamVars, keyVars, urlVars, url2Vars, getVars, chunkVars, trackVars,
                   concVars, listVars>>

\* faulty variant: the request is sent again without a refresh of the token
GwCallCheckNoRefresh ==
    /\ apc = "gw_check"
    /\ IF ~a_retried /\ IsTokenError(a_body.error)
       THEN /\ a_retried' = TRUE
            /\ apc' = "gw_token"
            /\ UNCHANGED <<api_token, a_log, a_result>>
       ELSE /\ IF IsNonEmptyObject(a_body.error)
               THEN apc' = "err" /\ a_result' = Err("GW API error")
               ELSE apc' = "ok" /\ a_result' = Ok("results")
            /\ UNCHANGED <<api_token, a_log, a_retried>>
    /\ UNCHANGED <<current_user, a_call, a_method, a_body, a_logged_in>>
    /\ UNCHANGED <<streamVars, keyVars, urlVars, url2Vars, getVars, chunkVars, trackVars,
                   concVars, listVars>>

\* if !retried && (err_str.contains(..) || ..) { self.refresh_token().await?;
\* retried = true; continue; }  if body.error.is_object() && !..is_empty() { bail! }
\* return Ok(body.results);
GwCallCheck ==
    /\ apc = "gw_check"
    /\ IF ~a_retried /\ IsTokenError(a_body.error)
       THEN \E answer \in RefreshAnswers :
               LET r == RefreshTokenRun(api_token, answer)
               IN  /\ api_token' = r.api_token
                   /\ a_log' = Append(a_log, "refresh")
                   /\ IF r.ok
                      THEN /\ a_retried' = TRUE
                           /\ apc' = "gw_token"
                           /\ UNCHANGED a_result
                      ELSE /\ apc' = "err"
                           /\ a_result' = Err("refresh_token")
                           /\ UNCHANGED a_retried
       ELSE /\ IF IsNonEmptyObject(a_body.error)
               THEN apc' = "err" /\ a_result' = Err("GW API error")
               ELSE apc' = "ok" /\ a_result' = Ok("results")
            /\ UNCHANGED <<api_token, a_log, a_retried>>
    /\ UNCHANGED <<current_user, a_call, a_method, a_body, a_logged_in>>
    /\ UNCHANGED <<streamVars, keyVars, urlVars, url2Vars, getVars, chunkVars, trackVars,
                   concVars, listVars>>

\* pub async fn login_via_arl(&self, arl: &str)
LoginViaArlCall ==
    /\ ApiIdle
    /\ a_call' = "login_via_arl"
    /\ a_method' = ""
    /\ a_retried' = FALSE
    /\ a_body' = NoBody
    /\ a_result' = NoResult
    /\ a_log' = <<>>
    /\ apc' = "login_get"
    /\ UNCHANGED <<api_token, current_user, a_logged_in>>
    /\ UNCHANGED <<streamVars, keyVars, urlVars, url2Vars, getVars, chunkVars, trackVars,
                   concVars, listVars>>

\* self.client.get("https://www.deezer.com/").header("Cookie", ..).send().await?
LoginGet ==
    /\ apc = "login_get"
    /\ a_log' = Append(a_log, "cookie")
    /\ \/ apc' = "err" /\ a_result' = Err("send")
       \/ apc' = "login_data" /\ UNCHANGED a_result
    /\ UNCHANGED <<api_token, current_user, a_call, a_method, a_retried, a_body,
                   a_logged_in>>
    /\ UNCHANGED <<streamVars, keyVars, urlVars, url2Vars, getVars, chunkVars, trackVars,
                   concVars, listVars>>

\* let user_data = self.gw_call_with_arl("deezer.getUserData", json!({}), arl).await?;
\* gw_call_with_arl (lines 116-157) stores the checkForm of the results, a string or
\* a number, as the api_token
LoginData ==
    /\ apc = "login_data"
    /\ a_log' = Append(a_log, "user_data")
    /\ \/ /\ apc' = "err"
          /\ a_result' = Err("gw_call_with_arl")
          /\ UNCHANGED <<a_body, api_token>>
       \/ \E user_id \in UserIds, check_form \in CheckForms,
             license_token \in LicenseTokens :
             /\ a_body' = [error |-> "[]", user_id |-> user_id,
                           check_form |-> check_form, license_token |-> license_token]
             /\ api_token' =
                    CASE check_form.kind = "string" -> Some(check_form.str)
                      [] check_form.kind = "number" -> Some(Decimal(check_form.num))
                      [] OTHER -> api_token
             /\ apc' = "login_check"
             /\ UNCHANGED a_result
    /\ UNCHANGED <<current_user, a_call, a_method, a_retried, a_logged_in>>
    /\ UNCHANGED <<streamVars, keyVars, urlVars, url2Vars, getVars, chunkVars, trackVars,
                   concVars, listVars>>

\* faulty variant: the user is stored before the test of is_zero
LoginCheckStoresFirst ==
    /\ apc = "login_check"
    /\ current_user' = Some(CurrentUser(a_body))
    /\ IF IsZero(a_body.user_id)
       THEN /\ a_result' = Ok("false")
            /\ UNCHANGED <<api_token, a_logged_in>>
       ELSE /\ api_token' = StoreCheckForm(api_token, a_body.check_form)
            /\ a_logged_in' = TRUE
            /\ a_result' = Ok("true")
    /\ apc' = "ok"
    /\ UNCHANGED <<a_call, a_method, a_retried, a_body, a_log>>
    /\ UNCHANGED <<streamVars, keyVars, urlVars, url2Vars, getVars, chunkVars, trackVars,
                   concVars, listVars>>

\* if is_zero { return Ok(false); }  ..  *cu = Some(CurrentUser { .. });  Ok(true)
LoginCheck ==
    /\ apc = "login_check"
    /\ IF IsZero(a_body.user_id)
       THEN /\ a_result' = Ok("false")
            /\ UNCHANGED <<api_token, current_user, a_logged_in>>
       ELSE /\ api_token' = StoreCheckForm(api_token, a_body.check_form)
            /\ current_user' = Some(CurrentUser(a_body))
            /\ a_logged_in' = TRUE
            /\ a_result' = Ok("true")
    /\ apc' = "ok"
    /\ UNCHANGED <<a_call, a_method, a_retried, a_body, a_log>>
    /\ UNCHANGED <<streamVars, keyVars, urlVars, url2Vars, getVars, chunkVars, trackVars,
                   concVars, listVars>>

\* pub async fn get_track_url(&self, track_token: &str, format: &str)
ApiGetTrackUrlCall ==
    /\ ApiIdle
    /\ a_call' = "get_track_url"
    /\ a_method' = ""
    /\ a_retried' = FALSE
    /\ a_body' = NoBody
    /\ a_result' = NoResult
    /\ a_log' = <<>>
    /\ apc' = "url_user"
    /\ UNCHANGED <<api_token, current_user, a_logged_in>>
    /\ UNCHANGED <<streamVars, keyVars, urlVars, url2Vars, getVars, chunkVars, trackVars,
                   concVars, listVars>>

\* let user = user.as_ref().context("Not logged in")?;
ApiGetTrackUrlUser ==
    /\ apc = "url_user"
    /\ IF current_user = None
       THEN apc' = "err" /\ a_result' = Err("Not logged in")
       ELSE apc' = "url_send" /\ UNCHANGED a_result
    /\ UNCHANGED <<api_token, current_user, a_call, a_method, a_retried, a_body, a_log,
                   a_logged_in>>
    /\ UNCHANGED <<streamVars, keyVars, urlVars, url2Vars, getVars, chunkVars, trackVars,
                   concVars, listVars>>

\* the request to MEDIA_URL and the search of the first source URL (lines 443-478)
ApiGetTrackUrlSend ==
    /\ apc = "url_send"
    /\ a_log' = Append(a_log, "media")
    /\ \E outcome \in TrackUrlOutcomes :
          /\ apc' = IF outcome = "Err" THEN "err" ELSE "ok"
          /\ a_result' = IF outcome = "Err" THEN Err("send") ELSE Ok(outcome)
    /\ UNCHANGED <<api_token, current_user, a_call, a_method, a_retried, a_body,
                   a_logged_in>>
    /\ UNCHANGED <<streamVars, keyVars, urlVars, url2Vars, getVars, chunkVars, trackVars,
                   concVars, listVars>>

NextApi ==
    \/ GwCallCall
    \/ GwCallToken
    \/ GwCallSend
    \/ GwCallCheck
    \/ LoginViaArlCall
    \/ LoginGet
    \/ LoginData
    \/ LoginCheck
    \/ ApiGetTrackUrlCall
    \/ ApiGetTrackUrlUser
    \/ ApiGetTrackUrlSend

\* any sequence of calls of gw_call, login_via_arl and get_track_url on one session
SpecApi == Init /\ [][NextApi]_vars

(***************************************************************************)
(* What the claims speak of: the super-chunks of a buffer of len bytes.    *)
(* The numbers are the claims' own (6144 bytes a super-chunk, 2048 bytes   *)
(* its encrypted head, 8 bytes a block), not the model's definitions.      *)
(***************************************************************************)
SuperChunkCount(len) == (len + 6143) \div 6144
SuperChunkLen(len, n) == IF len - 6144 * n < 6144 THEN len - 6144 * n ELSE 6144
SuperChunkOf(buf, n) ==
    SubSeq(buf, 6144 * n + 1, 6144 * n + SuperChunkLen(Len(buf), n))

Returned == pc = "done" /\ Len(blowfish_key) = 16

(***************************************************************************)
(* C1: whatever the input buffer (of any length, 0 included) and the       *)
(* 16-byte key, decrypt_stream returns a buffer, and it is as long as its  *)
(* input.                                                                  *)
(***************************************************************************)
C1_SameLength ==
    /\ (Len(blowfish_key) = 16 => pc # "panicked")
    /\ (Returned => Len(output) = Len(encrypted))

\* a buffer of two super-chunks and a tail of 2049 bytes is returned
C1_Witness ==
    /\ Returned
    /\ Len(encrypted) = 2 * 6144 + 2049
    /\ Len(output) = Len(encrypted)
    /\ output # encrypted

(***************************************************************************)
(* C2: in the buffer decrypt_stream returns, every byte at an index i      *)
(* (from 0) with i mod 6144 >= 2048 is the input byte at i: only the first *)
(* 2048 bytes of a super-chunk are transformed.                            *)
(***************************************************************************)
C2_TailCopied ==
    Returned =>
        /\ Len(output) = Len(encrypted)
        /\ \A i \in 0..(Len(encrypted) - 1) :
              (i % 6144) >= 2048 => output[i + 1] = encrypted[i + 1]

\* a whole super-chunk whose head was changed by the decryption
C2_Witness ==
    /\ Returned
    /\ Len(encrypted) >= 6144
    /\ SubSeq(output, 1, 2048) # SubSeq(encrypted, 1, 2048)
    /\ SubSeq(output, 2049, 6144) = SubSeq(encrypted, 2049, 6144)

(***************************************************************************)
(* C3: a super-chunk shorter than 2048 bytes (it is the last one) is       *)
(* returned byte for byte as it came; so an input shorter than 2048 bytes, *)
(* the empty one included, is returned unchanged.                          *)
(***************************************************************************)
C3_ShortChunkUnchanged ==
    Returned =>
        /\ \A n \in 0..(SuperChunkCount(Len(encrypted)) - 1) :
              SuperChunkLen(Len(encrypted), n) < 2048 =>
                  SuperChunkOf(output, n) = SuperChunkOf(encrypted, n)
        /\ Len(encrypted) < 2048 => output = encrypted

\* a short last super-chunk, of 2047 bytes that are not all equal, after a whole
\* one that was decrypted
C3_Witness ==
    /\ Returned
    /\ Len(encrypted) = 6144 + 2047
    /\ SuperChunkOf(output, 1) = SuperChunkOf(encrypted, 1)
    /\ encrypted[6145] # encrypted[6146]
    /\ SuperChunkOf(output, 0) # SuperChunkOf(encrypted, 0)

(***************************************************************************)
(* C4: in the first 2048 bytes of a super-chunk of at least 2048 bytes,    *)
(* the 256 blocks of 8 bytes are decrypted in chained-block mode: output   *)
(* block j is D_key(input block j) XOR input block j - 1 (the ciphertext), *)
(* and block 0 is XORed with the IV 0, 1, 2, 3, 4, 5, 6, 7.                *)
(***************************************************************************)
C4_ChainedBlocks ==
    Returned =>
        \A n \in 0..(SuperChunkCount(Len(encrypted)) - 1) :
            SuperChunkLen(Len(encrypted), n) >= 2048 =>
                \A j \in 0..255 :
                    LET at == 6144 * n + 8 * j
                        d  == BlowfishDecryptBlock(blowfish_key,
                                  SubSeq(encrypted, at + 1, at + 8))
                    IN  \A b \in 1..8 :
                            output[at + b] =
                                Xor(d[b], IF j = 0 THEN b - 1 ELSE encrypted[at - 8 + b])

\* two decrypted super-chunks; in the second one block 0 differs from the IV-less
\* decryption and block 1 from the unchained one
C4_Witness ==
    /\ Returned
    /\ Len(encrypted) = 2 * 6144
    /\ SubSeq(output, 6145, 6152)
           # BlowfishDecryptBlock(blowfish_key, SubSeq(encrypted, 6145, 6152))
    /\ SubSeq(output, 6153, 6160)
           # BlowfishDecryptBlock(blowfish_key, SubSeq(encrypted, 6153, 6160))

(***************************************************************************)
(* C5: every super-chunk is decrypted on its own: changing the input bytes *)
(* of another super-chunk m leaves the output of super-chunk n as it was,  *)
(* and two super-chunks with the same input bytes have the same output     *)
(* bytes.                                                                  *)
(***************************************************************************)
\* buf with every byte of its super-chunk m changed
Perturbed(buf, m) ==
    [i \in 1..Len(buf) |->
        IF (i - 1) \div 6144 = m THEN 255 - buf[i] ELSE buf[i]] \o <<>>

C5_ChunksIndependent ==
    Returned =>
        LET count == SuperChunkCount(Len(encrypted))
        IN  /\ \A m \in 0..(count - 1) :
                  LET other == DecryptStream(Perturbed(encrypted, m), blowfish_key)
                  IN  \A n \in 0..(count - 1) :
                          n # m => SuperChunkOf(other, n) = SuperChunkOf(output, n)
            /\ \A m, n \in 0..(count - 1) :
                  SuperChunkOf(encrypted, m) = SuperChunkOf(encrypted, n)
                      => SuperChunkOf(output, m) = SuperChunkOf(output, n)

\* three super-chunks, the first two with the same bytes, all of them decrypted
C5_Witness ==
    /\ Returned
    /\ Len(encrypted) = 2 * 6144 + 2048
    /\ SuperChunkOf(encrypted, 0) = SuperChunkOf(encrypted, 1)
    /\ SuperChunkOf(output, 0) = SuperChunkOf(output, 1)
    /\ SuperChunkOf(output, 0) # SuperChunkOf(encrypted, 0)
    /\ SuperChunkOf(output, 2) # SuperChunkOf(encrypted, 2)

(***************************************************************************)
(* C6: round trip: decrypt_stream, applied with the same key to the        *)
(* service-style encryption of a plaintext, returns the plaintext (for the *)
(* lengths 0, 2047, 2048, 2049, 6144, 6145, 12288 and every other length   *)
(* of the model).                                                          *)
(***************************************************************************)
C6_RoundTrip ==
    (Returned /\ plain # NoPlain) => output = plain

\* a plaintext of 12288 bytes that the encryption changed
C6_Witness ==
    /\ Returned
    /\ plain # NoPlain
    /\ Len(plain) = 12288
    /\ encrypted # plain
    /\ SubSeq(encrypted, 6145, 8192) # SubSeq(plain, 6145, 8192)
    /\ output = plain

(***************************************************************************)
(* C7: for every track identifier, the empty string included,              *)
(* generate_blowfish_key returns 16 bytes, byte i being                    *)
(* h[i] XOR h[i + 16] XOR secret[i], with h the 32 ASCII bytes of the      *)
(* lowercase hexadecimal digest of the identifier and secret the bytes of  *)
(* "g4el58wc0zvf9na1"; it never fails.                                     *)
(***************************************************************************)
C7_Secret == <<103, 52, 101, 108, 53, 56, 119, 99, 48, 122, 118, 102, 57, 110, 97, 49>>

IsLowerHex(c) == (48 <= c /\ c <= 57) \/ (97 <= c /\ c <= 102)
HexValue(c) == IF c <= 57 THEN c - 48 ELSE c - 87

\* the bytes a string of hexadecimal digits stands for
HexDecode(h) ==
    [i \in 1..(Len(h) \div 2) |-> 16 * HexValue(h[2 * i - 1]) + HexValue(h[2 * i])] \o <<>>

C7_KeyDerivation ==
    /\ kpc # "panicked"
    /\ kpc = "done" =>
          /\ Len(id_md5) = 32
          /\ \A i \in 1..32 : IsLowerHex(id_md5[i])
          /\ HexDecode(id_md5) = Md5Digest(track_id)
          /\ Len(bf_key) = 16
          /\ \A i \in 0..15 :
                bf_key[i + 1] = Xor(id_md5[i + 1], Xor(id_md5[i + 17], C7_Secret[i + 1]))

\* the key of the empty identifier, which is not the secret itself
C7_Witness ==
    /\ kpc = "done"
    /\ track_id = <<>>
    /\ Len(bf_key) = 16
    /\ bf_key # C7_Secret

(***************************************************************************)
(* C8: the number of '.' appended to step2 is (16 - (len mod 16)) mod 16,  *)
(* len being the UTF-8 byte length of step2, each U+00A4 counting 2 bytes: *)
(* nothing is appended when len is a multiple of 16, and the byte length   *)
(* handed to the block cipher is always a multiple of 16.                  *)
(***************************************************************************)
\* the byte length of step2 before the padding: 32 hexadecimal digits, a separator,
\* raw (four fields and three separators), a separator
C8_Len ==
    32 + 2 + (Len(url_args.md5) + 2 + Len(Decimal(url_args.format)) + 2
                 + Len(url_args.sng_id) + 2 + Len(url_args.media_version)) + 2

C8_Padding ==
    /\ upc # "panicked"
    /\ upc = "done" =>
          LET dots == (16 - (C8_Len % 16)) % 16
          IN  /\ Len(url_locals.step2) = C8_Len + dots
              /\ \A i \in (C8_Len + 1)..(C8_Len + dots) : url_locals.step2[i] = 46
              /\ SubSeq(url_locals.step2, 1, C8_Len)
                    = Step2(url_locals.md5val, url_locals.url_part_raw)
              /\ Len(url_locals.step2) % 16 = 0

\* a step2 of 48 bytes (the checksum itself holds a U+00A4, 2 bytes): nothing is
\* appended, its last bytes are those of the separator
C8_Witness ==
    /\ upc = "done"
    /\ C8_Len = 48
    /\ url_args.md5 = <<97, 194, 164>>
    /\ Len(url_locals.step2) = 48
    /\ url_locals.step2[47] = 194
    /\ url_locals.step2[48] = 164

(***************************************************************************)
(* C9: two calls of generate_crypted_stream_url whose arguments differ in  *)
(* exactly one of checksum, format code, track id and media version return *)
(* different URLs; two calls with equal arguments return the same URL.     *)
(***************************************************************************)
C9_Differing ==
    {f \in {"sng_id", "md5", "media_version", "format"} : url_args[f] # url_args2[f]}

C9_OneArgumentChangesUrl ==
    (upc = "done" /\ upc2 = "done") =>
        /\ Cardinality(C9_Differing) = 1 => url2 # url
        /\ Cardinality(C9_Differing) = 0 => url2 = url

\* the media version alone changes, from "" to ".", and the URL with it
C9_Witness ==
    /\ upc = "done"
    /\ upc2 = "done"
    /\ C9_Differing = {"media_version"}
    /\ url_args.media_version = <<>>
    /\ url_args2.media_version = <<46>>
    /\ url2 # url

(***************************************************************************)
(* C10: the URL is "https://e-cdns-proxy-", the first character of the     *)
(* checksum, ".dzcdn.net/mobile/1/" and the obfuscated path; the path is   *)
(* the hex encoding of the fixed-key block encryption of the padded step2  *)
(* = digest_hex(raw) SEP raw SEP, raw = checksum SEP decimal format code   *)
(* SEP track id SEP media version; the path has twice as many characters   *)
(* as the padded step2 has bytes.                                          *)
(***************************************************************************)
C10_Head == <<104, 116, 116, 112, 115, 58, 47, 47, 101, 45, 99, 100, 110, 115, 45, 112, 114, 111, 120, 121, 45>>
C10_Host == <<46, 100, 122, 99, 100, 110, 46, 110, 101, 116, 47, 109, 111, 98, 105, 108, 101, 47, 49, 47>>
C10_Key == <<106, 111, 54, 97, 101, 121, 54, 104, 97, 105, 100, 50, 84, 101, 105, 104>>
C10_Sep == <<194, 164>>

\* the inverse of the block encryption (183 * 7 = 1 mod 256)
AesDecryptBlock(key, c) ==
    [j \in 1..16 |->
        LET i == ((j + 12) % 16) + 1
        IN  (183 * (c[i] + 512 - key[i] - i)) % 256]

AesEcbDecrypt(key, data) ==
    [i \in 1..Len(data) |->
        LET at == 16 * ((i - 1) \div 16)
        IN  AesDecryptBlock(key, [n \in 1..16 |-> data[at + n]])[((i - 1) % 16) + 1]] \o <<>>

C10_Raw ==
    url_args.md5 \o C10_Sep \o Decimal(url_args.format) \o C10_Sep
        \o url_args.sng_id \o C10_Sep \o url_args.media_version

C10_PaddedStep2 ==
    LET step2 == Md5Hex(C10_Raw) \o C10_Sep \o C10_Raw \o C10_Sep
    IN  step2 \o [i \in 1..((16 - (Len(step2) % 16)) % 16) |-> 46]

\* the first character of the checksum: one byte, or the two bytes of U+00A4
C10_FirstChar ==
    IF url_args.md5[1] < 128
    THEN <<url_args.md5[1]>>
    ELSE <<url_args.md5[1], url_args.md5[2]>>

C10_UrlShape ==
    (upc = "done" /\ url_args.md5 # <<>>) =>
        LET front == C10_Head \o C10_FirstChar \o C10_Host
            path  == SubSeq(url, Len(front) + 1, Len(url))
        IN  /\ SubSeq(url, 1, Len(front)) = front
            /\ Len(path) = 2 * Len(C10_PaddedStep2)
            /\ \A i \in 1..Len(path) : IsLowerHex(path[i])
            /\ AesEcbDecrypt(C10_Key, HexDecode(path)) = C10_PaddedStep2

\* the spec's scenario: track 3135556, a checksum of 32 hexadecimal digits, media
\* version 1, format code 3; 83 bytes padded to 96, a path of 192 characters
C10_Witness ==
    /\ upc = "done"
    /\ url_args = [sng_id |-> <<51, 49, 51, 53, 53, 53, 54>>, md5 |-> RefChecksum,
                   media_version |-> <<49>>, format |-> 3]
    /\ url_locals.pad_len = 13
    /\ Len(url) = 21 + 1 + 20 + 192
    /\ HexDecode(SubSeq(url, 43, Len(url))) # C10_PaddedStep2

(***************************************************************************)
(* C11: an empty origin checksum is a fatal error for the legacy URL       *)
(* synthesis: no legacy URL is ever produced from an empty checksum,       *)
(* neither by generate_crypted_stream_url itself nor through               *)
(* get_download_url, which returns an error when the legacy path is        *)
(* reached with an empty checksum.                                         *)
(***************************************************************************)
\* get_download_url has gone past its test of the checksum, or returned a legacy URL
C11_LegacyUrlUnderWay ==
    \/ gpc = "sized"
    \/ gpc = "ok" /\ g_via \in {"sized", "last"}

C12_RaggedRegionFails ==
    (cpc # "idle" /\ Len(c_chunk) % 8 # 0) => cpc = "panicked"

(***************************************************************************)
(* C13: a key whose length is not 16 bytes is a fatal precondition failure *)
(* of decrypt_stream: whatever the input buffer, a call with such a key    *)
(* fails instead of returning a byte buffer.                               *)
(***************************************************************************)
C13_WrongKeyLengthFails ==
    (pc \notin {"idle", "loop"} /\ Len(blowfish_key) # 16) => pc = "panicked"

(***************************************************************************)
(* C14: repeatedly following TrackFormat::fallback from Flac yields        *)
(* exactly Flac, Mp3_320, Mp3_128 and then None; from every format the     *)
(* chain reaches None in at most 3 steps, never revisits a format, and the *)
(* numeric code (9, 3, 1) strictly decreases at every step.                *)
(***************************************************************************)
RECURSIVE C14_Chain(_, _)
\* the formats met by following fallback from format, n of them at most
C14_Chain(format, n) ==
    IF n = 0
    THEN <<>>
    ELSE <<format>> \o (IF Fallback(format) = None
                        THEN <<>>
                        ELSE C14_Chain(Fallback(format)[1], n - 1))

C14_FallbackChain ==
    /\ C14_Chain("Flac", 5) = <<"Flac", "Mp3_320", "Mp3_128">>
    /\ <<Code("Flac"), Code("Mp3_320"), Code("Mp3_128")>> = <<9, 3, 1>>
    /\ LET chain == C14_Chain(g_current_format, 5)
       IN  /\ Len(chain) <= 3
           /\ \A i, j \in 1..Len(chain) : i < j => chain[i] # chain[j]
           /\ \A i \in 1..(Len(chain) - 1) : Code(chain[i]) > Code(chain[i + 1])
           \* the two loops of get_download_url walk this chain
           /\ Len(g_calls) <= Len(chain)
           /\ \A i \in 1..Len(g_calls) : g_calls[i].format = chain[i]
           /\ (gpc = "fallback" /\ g_fallback # None) =>
                  /\ Len(g_calls) < Len(chain)
                  /\ g_fallback[1] = chain[Len(g_calls) + 1]
           /\ (gpc = "fallback" /\ g_fallback = None) => Len(g_calls) = Len(chain)
           /\ (gpc = "sized" /\ g_try_format # None) =>
                  \E i \in 1..Len(chain) :
                      /\ g_try_format[1] = chain[i]
                      /\ \A k \in 1..(i - 1) : FilesizeForFormat(g_track, chain[k]) = 0

\* the token path has followed the chain from Flac to its end
C14_Witness ==
    /\ gpc = "fallback"
    /\ g_current_format = "Flac"
    /\ g_fallback = None
    /\ Len(g_calls) = 3
    /\ <<g_calls[1].format, g_calls[2].format, g_calls[3].format>>
           = <<"Flac", "Mp3_320", "Mp3_128">>

(***************************************************************************)
(* What the claims speak of: the file download_track has written, and the  *)
(* decrypted buffer it was written from.                                   *)
(***************************************************************************)
FileWritten == tpc = "done" /\ t_file # None

\* bytes 4..7 (from 0) are "ftyp"
HasFtyp(buf) == Len(buf) >= 8 /\ <<buf[5], buf[6], buf[7], buf[8]>> = <<102, 116, 121, 112>>

\* the number of zero bytes buf starts with
LeadingZeros(buf) ==
    Cardinality({n \in 1..Len(buf) : \A i \in 1..n : buf[i] = 0})

(***************************************************************************)
(* C15: every decrypted buffer whose bytes at offsets 4..7 are "ftyp" is   *)
(* written to the file untouched, even when it starts with zero bytes, for *)
(* every buffer length >= 8 (a buffer of exactly 8 bytes included).        *)
(***************************************************************************)
C15_FtypUntouched ==
    (FileWritten /\ HasFtyp(t_final_data)) => t_file = Some(t_final_data)

(***************************************************************************)
(* C16: for every decrypted buffer whose bytes 4..7 are not "ftyp", the    *)
(* bytes written to the file are the buffer without its entire leading run *)
(* of zero bytes: the written data is empty or starts with a non-zero byte *)
(* (a buffer of zero bytes only included).                                 *)
(***************************************************************************)
C16_LeadingZerosStripped ==
    (FileWritten /\ ~HasFtyp(t_final_data)) =>
        LET written == t_file[1]
        IN  /\ written = SubSeq(t_final_data, LeadingZeros(t_final_data) + 1,
                                Len(t_final_data))
            /\ (written = <<>> \/ written[1] # 0)

(***************************************************************************)
(* C17: bytes obtained through either URL path are always decrypted: every *)
(* successful return of get_download_url (token-resolved, legacy with a    *)
(* sized format, legacy last resort) carries is_crypted = true, so         *)
(* download_track applies decrypt_stream to every non-empty downloaded     *)
(* buffer before writing it.                                               *)
(***************************************************************************)
C17_AlwaysDecrypted ==
    /\ (gpc = "ok" => g_return.is_crypted /\ g_via \in {"token", "sized", "last"})
    /\ (tpc \notin {"idle", "url", "geturl", "err"} => t_url.is_crypted)
    /\ ((tpc \in {"strip", "write"} \/ t_file # None) =>
           /\ t_data # <<>>
           /\ pc = "done"
           /\ encrypted = t_data
           /\ t_final_data = output)

\* a URL of the media API, a download of 2048 bytes and 4 more, decrypted to other
\* bytes and written
C17_Witness ==
    /\ FileWritten
    /\ g_via = "token"
    /\ Len(t_data) = 2052
    /\ t_final_data # t_data
    /\ Len(t_final_data) = 2052

(***************************************************************************)
(* C18: the legacy URL synthesis is used only as a fallback:               *)
(* get_download_url returns a legacy-synthesized URL only when the track   *)
(* has no non-empty access token, or when the token resolution was         *)
(* attempted and failed (error or no URL) for the requested format and for *)
(* every format on its fallback chain.                                     *)
(***************************************************************************)
\* the requested format and the formats on its fallback chain
C18_Formats(format) ==
    CASE format = "Flac" -> <<"Flac", "Mp3_320", "Mp3_128">>
      [] format = "Mp3_320" -> <<"Mp3_320", "Mp3_128">>
      [] format = "Mp3_128" -> <<"Mp3_128">>

\* the URL returned is one of the legacy synthesis: "https://e-cdns-proxy-..."
C18_LegacyReturned ==
    /\ gpc = "ok"
    /\ Len(g_return.url) > 21
    /\ SubSeq(g_return.url, 1, 21) =
           <<104, 116, 116, 112, 115, 58, 47, 47, 101, 45, 99, 100, 110, 115, 45,
             112, 114, 111, 120, 121, 45>>

C18_LegacyOnlyAsFallback ==
    /\ (gpc = "ok" => (C18_LegacyReturned <=> g_via \in {"sized", "last"}))
    /\ (C18_LegacyReturned \/ gpc = "sized") =>
           \/ /\ g_track.track_token \in {<<>>, << <<>> >>}
              /\ g_calls = <<>>
           \/ /\ g_track.track_token \notin {<<>>, << <<>> >>}
              /\ LET formats == C18_Formats(g_current_format)
                 IN  /\ Len(g_calls) = Len(formats)
                     /\ \A i \in 1..Len(formats) :
                            /\ g_calls[i].format = formats[i]
                            /\ g_calls[i].outcome \in {"Err", "OkNone"}

\* a legacy URL for Mp3_128 after the token gave an error for Flac, no URL for
\* Mp3_320 and an error for Mp3_128
C18_Witness ==
    /\ C18_LegacyReturned
    /\ g_via = "sized"
    /\ g_current_format = "Flac"
    /\ g_return.format = "Mp3_128"
    /\ g_track.track_token = << <<116>> >>
    /\ <<g_calls[1].outcome, g_calls[2].outcome, g_calls[3].outcome>>
           = <<"Err", "OkNone", "Err">>

(***************************************************************************)
(* C19: in download_track the key derivation (generate_blowfish_key of the *)
(* track id) completes before decrypt_stream starts, and decrypt_stream    *)
(* starts only after the download stream has ended with every received     *)
(* chunk appended to the buffer; if any chunk read fails, no decryption    *)
(* happens and no file is written.                                         *)
(***************************************************************************)
RECURSIVE C19_Concat(_)
\* the chunks of a sequence, one after the other
C19_Concat(chunks) ==
    IF chunks = <<>>
    THEN <<>>
    ELSE C19_Concat(SubSeq(chunks, 1, Len(chunks) - 1)) \o chunks[Len(chunks)]

C19_Ordering ==
    /\ (pc # "idle" =>
           /\ kpc = "done"
           /\ track_id = t_track.sng_id
           /\ blowfish_key = bf_key
           /\ tpc \in {"decrypting", "strip", "write", "done", "err", "panicked"}
           /\ encrypted = C19_Concat(t_received))
    /\ (kpc # "idle" => tpc \notin {"idle", "url", "geturl", "dir", "exists", "send", "stream"})
    /\ (tpc = "stream" => t_data = C19_Concat(t_received))
    /\ (t_failed = "chunk" =>
           /\ tpc = "err"
           /\ kpc = "idle"
           /\ pc = "idle"
           /\ t_file = None)

\* two chunks were received, the key derived, and decrypt_stream has returned
C19_Witness ==
    /\ tpc = "decrypting"
    /\ pc = "done"
    /\ kpc = "done"
    /\ Len(t_received) = 2
    /\ Len(encrypted) = 2048 + 5
    /\ output # encrypted

(***************************************************************************)
(* C20.                                                                    *)
(***************************************************************************)
\* the value the call returns when it runs alone
RunAlone(c) ==
    CASE c.op = "md5_hex" -> Md5Hex(c.args[1])
      [] c.op = "aes_ecb_encrypt" -> AesEcbEncrypt(c.args[1], c.args[2])
      [] c.op = "generate_blowfish_key" -> GenerateBlowfishKey(c.args[1]).bf_key
      [] c.op = "generate_stream_path" ->
             GenerateStreamPath(c.args[1], c.args[2], c.args[3], c.args[4]).result
      [] c.op = "decrypt_stream" -> DecryptStream(c.args[1], c.args[2])

\* C20: the core operations (md5_hex, aes_ecb_encrypt, generate_blowfish_key,
\* generate_stream_path, decrypt_stream) share no state: however the statements of
\* concurrent invocations interleave, an invocation that returns returns what it
\* returns when run alone on the same arguments, one that panics panics alone too,
\* its input buffers are what the caller passed, and no frame of locals is written
\* by two threads.
C20_NoSharedState ==
    \A t \in Threads :
        /\ th_pc[t] = "done" => th_result[t] = RunAlone(th_call[t])
        /\ th_pc[t] = "panicked" => RunAlone(th_call[t]) = Panicked
        /\ th_pc[t] # "idle" => th_args[t] = th_call[t].args
        /\ th_owner[Frame(t)] \in {0, t}

\* two invocations of decrypt_stream on different buffers have both returned, each
\* having taken steps while the other was under way
C20_Witness ==
    /\ \A t \in Threads :
          /\ th_pc[t] = "done"
          /\ th_mixed[t]
          /\ th_call[t].op = "decrypt_stream"
          /\ th_result[t] # <<>>
    /\ th_call[1].args # th_call[2].args

(***************************************************************************)
(* C21.                                                                    *)
(***************************************************************************)
\* one iteration of the while loop of decrypt_stream has run
C21_Iteration == pc = "loop" /\ pc' = "loop"

\* C21: in decrypt_stream the offset is a multiple of 6144 at the start of every
\* iteration and strictly increases, never beyond the input length (so that inside
\* the loop either the guard of the next iteration or that of the return holds), and
\* with a 16-byte key no iteration panics: the loop terminates, and it does with
\* offset equal to the input length; every super-chunk except
\* possibly the last has exactly 6144 bytes, hence a super-chunk shorter than 2048
\* bytes can only be the last one.
C21_OffsetAdvances ==
    /\ [](pc = "loop" =>
            /\ offset <= Len(encrypted)
            /\ offset < Len(encrypted) => offset % 6144 = 0)
    /\ [][C21_Iteration =>
            /\ offset' > offset
            /\ offset' - offset # 6144 => offset' = Len(encrypted)
            /\ offset' - offset < 2048 => offset' = Len(encrypted)]_vars
    /\ [](Len(blowfish_key) = 16 => pc # "panicked")
    /\ [](pc = "done" => offset = Len(encrypted))

\* the loop has run three times over an input of two whole super-chunks and a tail
\* shorter than 2048 bytes, and has been left
C21_Witness ==
    /\ pc = "done"
    /\ Len(encrypted) = 2 * 6144 + 2047
    /\ offset = Len(encrypted)
    /\ Len(output) = Len(encrypted)

(***************************************************************************)
(* C22.                                                                    *)
(***************************************************************************)
\* the preference of a format: the higher, the better
C22_Preference(format) ==
    CASE format = "Flac" -> 3
      [] format = "Mp3_320" -> 2
      [] format = "Mp3_128" -> 1

\* the requested format, then the formats of lower preference, best first
C22_Order(format) ==
    [i \in 1..C22_Preference(format) |->
        CHOOSE f \in TrackFormats : C22_Preference(f) = C22_Preference(format) - i + 1]

\* the last call of api.get_track_url gave a URL
C22_GotUrl == g_calls # <<>> /\ g_calls[Len(g_calls)].outcome = "OkSome"

\* C22: on the access-token path get_download_url queries the requested format, then
\* its fallback chain, in this order and each format at most once; it stops at the
\* first format for which the service returns a URL and returns that format with
\* that URL; the format returned is the requested one or one of lower preference.
C22_TokenPathOrder ==
    LET order == C22_Order(g_current_format)
    IN  /\ g_calls # <<>> => HasToken(g_track)
        /\ (HasToken(g_track) /\ gpc \notin {"idle", "token"}) => g_calls # <<>>
        /\ Len(g_calls) <= Len(order)
        /\ \A i \in 1..Len(g_calls) : g_calls[i].format = order[i]
        /\ \A i, j \in 1..Len(g_calls) : i < j => g_calls[i].format # g_calls[j].format
        /\ \A i \in 1..(Len(g_calls) - 1) : g_calls[i].outcome # "OkSome"
        /\ C22_GotUrl <=> g_via = "token"
        /\ C22_GotUrl =>
              LET last == g_calls[Len(g_calls)].format
              IN  /\ gpc = "ok"
                  /\ g_return.format = last
                  /\ g_return.url = MediaUrl(last)
                  /\ C22_Preference(g_return.format) <= C22_Preference(g_current_format)

\* Flac was asked for, the service gave an error for Flac and a URL for Mp3_320,
\* which is returned
C22_Witness ==
    /\ gpc = "ok"
    /\ g_via = "token"
    /\ g_current_format = "Flac"
    /\ Len(g_calls) = 2
    /\ g_calls[1].outcome = "Err"
    /\ g_calls[2] = [format |-> "Mp3_320", outcome |-> "OkSome"]
    /\ g_return.format = "Mp3_320"

(***************************************************************************)
(* C23.                                                                    *)
(***************************************************************************)
\* the requested format and its fallback chain
C23_Order(format) ==
    CASE format = "Flac" -> <<"Flac", "Mp3_320", "Mp3_128">>
      [] format = "Mp3_320" -> <<"Mp3_320", "Mp3_128">>
      [] format = "Mp3_128" -> <<"Mp3_128">>

\* the format codes of the service
C23_Code(format) ==
    CASE format = "Flac" -> 9
      [] format = "Mp3_320" -> 3
      [] format = "Mp3_128" -> 1

\* get_download_url has returned from the legacy path
C23_LegacyReturn == gpc = "ok" /\ g_via \in {"sized", "last"}

\* C23: on the legacy path with a non-empty checksum get_download_url returns the
\* URL for the first format, in the order requested format then fallback chain,
\* whose recorded file size (as filesize_for_format reads it: a missing or
\* unreadable size counts as 0) is greater than 0; when no format of the chain has a
\* positive size it returns the URL for the requested format; the URL is built with
\* the code of the format returned.  The legacy path with a non-empty checksum
\* returns nothing else.
C23_LegacyChoice ==
    /\ C23_LegacyReturn =>
          LET order == C23_Order(g_current_format)
              sized == {i \in 1..Len(order) : FilesizeForFormat(g_track, order[i]) > 0}
          IN  /\ Md5Of(g_track) # <<>>
              /\ IF sized # {}
                 THEN /\ g_via = "sized"
                      /\ \E i \in sized :
                            /\ \A k \in sized : i <= k
                            /\ g_return.format = order[i]
                 ELSE /\ g_via = "last"
                      /\ g_return.format = g_current_format
              /\ g_return.url =
                     GenerateCryptedStreamUrl(IdStr(g_track), Md5Of(g_track),
                                              MediaVer(g_track), C23_Code(g_return.format))
    /\ (g_via \in {"sized", "last"} \/ gpc = "sized") => Md5Of(g_track) # <<>>
    /\ (Md5Of(g_track) # <<>> /\ g_via # "token") => gpc \notin {"err", "panicked"}

\* Flac was asked for of a track with no access token, whose only recorded size is
\* that of Mp3_128: the URL returned is that of Mp3_128
C23_Witness ==
    /\ C23_LegacyReturn
    /\ g_calls = <<>>
    /\ g_current_format = "Flac"
    /\ g_track.filesize = [f \in TrackFormats |-> IF f = "Mp3_128" THEN 1 ELSE 0]
    /\ g_return.format = "Mp3_128"
    /\ g_via = "sized"

(***************************************************************************)
(* C24.                                                                    *)
(***************************************************************************)
\* the positions of the log at which gw_call sent the request of its method
C24_Requests == {i \in 1..Len(a_log) : a_log[i] = "method"}

\* gw_call is inside its loop
C24_InLoop == a_call = "gw_call" /\ apc \in {"gw_token", "gw_send", "gw_check"}

\* what is left to do in the loop at most: it decreases with every step
C24_Measure ==
    (IF a_retried THEN 0 ELSE 3)
        + (CASE apc = "gw_token" -> 3
             [] apc = "gw_send" -> 2
             [] apc = "gw_check" -> 1
             [] OTHER -> 0)

\* C24: a single gw_call sends the request of its method at most twice, the second
\* time only after a token error ("invalid api token" / "Invalid CSRF token") in the
\* first response, and with a run of refresh_token between the two requests; when
\* the second response still carries a non-empty error object the call returns an
\* error; the loop always terminates (every step of it lowers a bounded measure, and
\* inside the loop there is always a step to take).
C24_RetryOnce ==
    /\ [](a_call = "gw_call" =>
            /\ Cardinality(C24_Requests) <= 2
            /\ \A i, k \in C24_Requests :
                  i < k => \E j \in (i + 1)..(k - 1) : a_log[j] = "refresh"
            /\ Cardinality(C24_Requests) = 2 => a_retried
            /\ a_retried => C24_Requests # {}
            /\ apc = "ok" => ~IsNonEmptyObject(a_body.error))
    /\ [][(C24_InLoop /\ apc = "gw_check" /\ a_retried /\ IsNonEmptyObject(a_body.error))
              => (apc' = "err" /\ ~a_result'.ok)]_vars
    /\ [][(C24_InLoop /\ ~a_retried /\ a_retried') => IsTokenError(a_body.error)]_vars
    /\ [][C24_InLoop => C24_Measure' < C24_Measure]_vars
    /\ [](C24_InLoop => ENABLED (GwCallToken \/ GwCallSend \/ GwCallCheck))

\* gw_call has returned an error after two requests, a refresh between them, the
\* second response carrying an error object again
C24_Witness ==
    /\ a_call = "gw_call"
    /\ apc = "err"
    /\ a_retried
    /\ Cardinality(C24_Requests) = 2
    /\ a_log[Len(a_log)] = "method"
    /\ IsNonEmptyObject(a_body.error)
    /\ IsTokenError(a_body.error)

(***************************************************************************)
(* C27.                                                                    *)
(***************************************************************************)
\* login_via_arl has just returned Ok(true)
C27_LoginTrue == a_call = "login_via_arl" /\ apc = "ok" /\ a_result = Ok("true")

\* C27: current_user, unset in a new session, is set only by a call of login_via_arl
\* that returns true, which it does only for a USER_ID that is not 0 (the number 0,
\* the string "0", or no number and no string at all); as long as no login has
\* returned true, current_user is unset and get_track_url returns the error "Not
\* logged in" without sending a request.
C27_Session ==
    /\ [](current_user # None <=> a_logged_in)
    /\ [](C27_LoginTrue =>
            /\ a_logged_in
            /\ a_body.user_id \notin {JsonNumber(0), JsonString(<<48>>)}
            /\ a_body.user_id.kind \in {"number", "string"})
    /\ [][current_user' # current_user => (C27_LoginTrue' /\ current_user' # None)]_vars
    /\ [][a_logged_in' # a_logged_in => C27_LoginTrue']_vars
    /\ []((~a_logged_in /\ a_call = "get_track_url" /\ apc \in {"ok", "err"}) =>
            /\ a_result = Err("Not logged in")
            /\ a_log = <<>>)
    /\ []((~a_logged_in /\ a_call = "get_track_url") => apc # "url_send")

\* get_track_url has returned "Not logged in" in a session in which earlier calls
\* have stored an api_token and no login has returned true
C27_Witness ==
    /\ a_call = "get_track_url"
    /\ apc = "err"
    /\ a_result = Err("Not logged in")
    /\ api_token # None
    /\ current_user = None
    /\ ~a_logged_in

(***************************************************************************)
(* C26.                                                                    *)
(***************************************************************************)
\* effect e is among those of the call of download_track
C26_Did(e) == \E i \in 1..Len(t_effects) : t_effects[i] = e

\* C26: download_track never overwrites an existing file: when it finds a file at
\* the target path it returns successfully, without sending the download request
\* and without creating or writing a file; it creates the file only after a
\* download that succeeded (the request sent, no chunk in error) and was not empty;
\* a request that cannot be sent, an HTTP error status, a chunk in error or an empty
\* body give an error and no file.
C26_NoOverwrite ==
    /\ C26_Did("exists") =>
          /\ tpc = "done"
          /\ t_failed = ""
          /\ ~C26_Did("request")
          /\ ~C26_Did("create")
          /\ t_file = None
    /\ C26_Did("create") =>
          /\ ~C26_Did("exists")
          /\ t_effects = <<"request", "create">>
          /\ t_data # <<>>
          /\ t_received # <<>>
          /\ t_failed \in {"", "create", "write"}
    /\ t_file # None => C26_Did("create")
    /\ t_failed \in {"build", "send", "status", "chunk", "empty"} =>
          /\ tpc = "err"
          /\ ~C26_Did("create")
          /\ t_file = None
    /\ (tpc = "done" /\ ~C26_Did("exists")) => (C26_Did("create") /\ t_file # None)

\* a file was found at the target path, and download_track has returned
C26_Witness ==
    /\ tpc = "done"
    /\ t_effects = <<"exists">>
    /\ t_url.url # <<>>
    /\ t_file = None

(***************************************************************************)
(* C25.                                                                    *)
(***************************************************************************)
\* the first n tracks of the playlist
C25_First(n) == SubSeq(l_tracks, 1, n)

\* C25: download_playlist attempts every track of the list it fetched exactly once,
\* in list order: the tracks download_track was called with are always the first
\* ones of the list, downloaded + failed is the number of calls that have returned,
\* a track that fails never ends download_playlist in an error, and when the
\* function returns every track was attempted and downloaded + failed is the number
\* of tracks fetched.
C25_EveryTrackOnce ==
    /\ lpc \in {"loop", "done"} =>
          /\ l_attempts = C25_First(l_i)
          /\ l_downloaded + l_failed = l_i
    /\ lpc = "track" =>
          /\ l_i < Len(l_tracks)
          /\ l_attempts = C25_First(l_i + 1)
          /\ t_track = l_tracks[l_i + 1]
          /\ l_downloaded + l_failed = l_i
    /\ lpc = "done" =>
          /\ l_attempts = l_tracks
          /\ l_downloaded + l_failed = Len(l_tracks)
    /\ l_attempts # <<>> => lpc \in {"loop", "track", "done"}
    /\ lpc = "err" => (l_attempts = <<>> /\ l_downloaded + l_failed = 0)

\* the first of two tracks has failed, the second was downloaded, and
\* download_playlist has returned
C25_Witness ==
    /\ lpc = "done"
    /\ Len(l_tracks) = 2
    /\ InvalidTrackData(l_tracks[1])
    /\ l_failed = 1
    /\ l_downloaded = 1
    /\ t_file # None

=============================================================================
